---- MODULE Spec2Model ----
(***************************************************************************)
(* Resilience core of the Go reverse proxy: the byte-bounded LRU+TTL       *)
(* ResponseCache, the per-backend CircuitBreakerManager, the in-memory     *)
(* Registry with longest-prefix match, the HealthMonitor's health table    *)
(* and goroutines, the ResilientRouter's round-robin selection, the GET    *)
(* and POST handlers, and the order in which the goroutines take mutexes.  *)
(*                                                                         *)
(* Strings (request paths, cache keys, route prefixes) are sequences of    *)
(* one-character strings, byte slices are sequences of numbers, so that    *)
(* len() and strings.HasPrefix are computed as the code computes them.     *)
(* Wall-clock time is the integer variable now, in seconds.                *)
(***************************************************************************)
EXTENDS Integers, Sequences, FiniteSets, TLC

VARIABLES
    now,        \* time.Now(), in seconds
    rc,         \* the ResponseCache struct: items, head, tail, maxBytes, usedBytes, ttl
    cacheRet,   \* what the last cache operation returned / logged
    recency,    \* history: live keys by last access (Store or Get hit), newest first
    breakers,   \* CircuitBreakerManager.breakers: backend name -> Breaker
    cbRet,      \* what the last breaker call returned: AllowRequest's flag, else nothing
    failRun,    \* history: per backend, OnFailure calls in a row since Closed with 0 failures
    probes,     \* history: per backend, probes admitted in HalfOpen and not yet completed
    servers,    \* Registry.servers: name -> Server
    regRet,     \* what the last registry call returned
    healthMap,  \* HealthMonitor.healthMap: name -> HealthStatus
    roundRobinIndex,    \* ResilientRouter.roundRobinIndex: prefix -> counter
    req,        \* per request goroutine: where it is in the handler and its locals
    picks,      \* history: the last backends chosen for one prefix with no health,
                \* breaker or registry change in between, oldest first (at most two)
    hm,         \* the HealthMonitor's goroutines: the Start loop, its probes, Stop
    lk,         \* the five mutexes and the goroutines taking them
    fetched,    \* history: per path, the last body a GET fetched with status 200
    pg,         \* the PostgreSQLRegistry: the rows of table services, and what its
                \* last call returned
    rrs,        \* rr.mu, the ResolveBackend calls at the round-robin selection, and
                \* history: per prefix, the counter values the selections read
    pr          \* one forwarded request: the locals of performRequest, and history:
                \* the requests it sent, the delays it slept, what the handler reported

cacheVars == <<rc, cacheRet, recency>>
breakerVars == <<breakers, cbRet, failRun, probes>>
registryVars == <<servers, regRet>>
routerVars == <<roundRobinIndex, req, picks>>
\* the monitor's goroutines, the lock table, the history of fetched responses, the
\* PostgreSQL-backed registry, the calls at the round-robin selection and the
\* forwarding of one request
sideVars == <<hm, lk, fetched, pg, rrs, pr>>
vars == <<now, cacheVars, breakerVars, registryVars, healthMap, routerVars, sideVars>>

\* what the operations of one component leave alone
notCache == <<breakerVars, registryVars, healthMap, routerVars>>
notBreaker == <<cacheVars, registryVars, healthMap, routerVars>>
notRegistry == <<cacheVars, breakerVars, healthMap, routerVars>>

----------------------------------------------------------------------------
(* Bounds of the model *)

\* the clock advances in steps of ClockStep seconds up to MaxTime
ClockStep == 10
MaxTime == 60

\* backend names; the breaker table is driven for BreakerNames, and so are the
\* two registries run side by side
Names == { "s1", "s2", "s3" }
BreakerNames == { "s1", "s2" }
\* OnFailure is not called any more once a breaker has counted MaxFailures failures
MaxFailures == 6

\* cache keys are request paths; payloads are small byte slices
CacheKeys == { <<"/", "a">>, <<"/", "b">>, <<"/", "c">> }
CacheValues == { <<1>>, <<2, 2>> }
\* budgets handed to NewResponseCache: one entry, exactly two small entries, three
MaxBytesChoices == { 67, 134, 202 }

\* route prefixes: "/a", the longer "/a/b", and the empty string
PrefixA == <<"/", "a">>
PrefixAB == <<"/", "a", "/", "b">>
PrefixEmpty == << >>
\* the Prefixes slices servers register with
PrefixLists ==
    { <<PrefixA>>, <<PrefixAB>>, <<PrefixA, PrefixAB>>, <<PrefixAB, PrefixAB>>,
      <<PrefixEmpty>>, <<PrefixEmpty, PrefixA>> }
\* request paths: "/a/b/x", "/a/x", "/x" and ""
Paths ==
    { <<"/", "a", "/", "b", "/", "x">>, <<"/", "a", "/", "x">>, <<"/", "x">>, << >> }
\* what the in-memory and the PostgreSQL-backed registry are both called with: the
\* names of BreakerNames with these Prefixes slices, and the paths "/a/b/x", "/x"
BothPrefixLists == { <<PrefixA>>, <<PrefixA, PrefixAB>> }
BothPaths == { <<"/", "a", "/", "b", "/", "x">>, <<"/", "x">> }
\* the registries the router is run against: two backends sharing "/a", and one
\* backend with "/a" next to one registered with the empty prefix
RouterRegistries ==
    { [n \in {"s1", "s2"} |-> <<PrefixA>>],
      [n \in {"s1", "s2"} |-> IF n = "s1" THEN <<PrefixA>> ELSE <<PrefixEmpty>>] }
\* the paths requested of the router: "/a/x" and "/x"
RouterPaths == { <<"/", "a", "/", "x">>, <<"/", "x">> }
\* request goroutines
RouterThreads == { 1 }
\* what the attempts of one performRequest meet: a transport error (0) or a
\* response with one of these status codes; 500 is retried, 505 is not
AttemptOutcomes == [1..3 -> { 0, 200, 500, 505 }]
\* the same for the proxy with its cache, where 204 is a 2xx status other than 200
ProxyOutcomes == [1..3 -> { 0, 200, 204, 500 }]
\* the byte budget of the proxy's cache, scaled to the response bodies of the model
\* (CacheValues): the entry of "/a/x" with a one-byte body fills it exactly, the
\* entry with a two-byte body exceeds it
ProxyMaxBytes == 69
\* no new resolution starts once a round-robin counter has reached MaxRR
MaxRR == 2
\* a failed probe is not recorded for a backend with MaxProbeFailures failures in a row
MaxProbeFailures == 3
\* the ticker of the health monitor fires at most MaxTicks - 1 times after the
\* initial check
MaxTicks == 4

\* the base URL a backend registers with
BaseURLOf(name) == <<"h", name>>

----------------------------------------------------------------------------
(* Generic helpers *)

\* a nil *Node
NIL == <<"nil">>

\* s without the elements satisfying none of keep
SelectKeys(s, keep) == SelectSeq(s, LAMBDA x : x \in keep)

\* s without the element k
Without(s, k) == SelectSeq(s, LAMBDA x : x # k)

\* the elements of a sequence
Range(s) == { s[i] : i \in 1..Len(s) }

\* f restricted to the domain D
Restrict(f, D) == [x \in D |-> f[x]]

\* time t is strictly after time u (time.Time.After)
After(t, u) == t > u

----------------------------------------------------------------------------
(* ResponseCache: cache.go *)

\* cacheTTL := 30 * time.Second
CacheTTL == 30

\* const nodeOverhead = 64
nodeOverhead == 64

NewResponseCache(ttl, maxBytes) ==
    [items |-> << >>, head |-> NIL, tail |-> NIL,
     maxBytes |-> maxBytes, usedBytes |-> 0, ttl |-> ttl]

approximateSize(key, value) == Len(key) + Len(value) + nodeOverhead

\* node.prev.next = node.next or rc.head = node.next; node.next.prev = node.prev or
\* rc.tail = node.prev.  The node keeps its own (stale) links.
detachNode(c, k) ==
    LET node == c.items[k]
        c1 == IF node.prev # NIL
              THEN [c EXCEPT !.items[node.prev].next = node.next]
              ELSE [c EXCEPT !.head = node.next]
    IN  IF node.next # NIL
        THEN [c1 EXCEPT !.items[node.next].prev = node.prev]
        ELSE [c1 EXCEPT !.tail = node.prev]

\* mutant: the old head is not linked back to the new node
insertAtHead_NoBackLink(c, k) ==
    LET c1 == [c EXCEPT !.items[k].prev = NIL, !.items[k].next = c.head]
        c3 == [c1 EXCEPT !.head = k]
    IN  IF c3.tail = NIL THEN [c3 EXCEPT !.tail = k] ELSE c3

insertAtHead(c, k) ==
    LET c1 == [c EXCEPT !.items[k].prev = NIL, !.items[k].next = c.head]
        c2 == IF c.head # NIL THEN [c1 EXCEPT !.items[c.head].prev = k] ELSE c1
        c3 == [c2 EXCEPT !.head = k]
    IN  IF c3.tail = NIL THEN [c3 EXCEPT !.tail = k] ELSE c3

moveToHead(c, k) ==
    IF k = c.head THEN c ELSE insertAtHead(detachNode(c, k), k)

\* delete(rc.items, key)
deleteItem(c, k) == [c EXCEPT !.items = Restrict(c.items, DOMAIN c.items \ {k})]

\* detachNode; delete(rc.items, key); rc.usedBytes -= node.sizeBytes
removeNode(c, k) ==
    LET size == c.items[k].sizeBytes
        c1 == deleteItem(detachNode(c, k), k)
    IN  [c1 EXCEPT !.usedBytes = c1.usedBytes - size]

\* mutant: evicts at most one entry (an if for the loop)
evictToCapacity_Once(c) ==
    IF c.usedBytes > c.maxBytes /\ c.tail # NIL THEN removeNode(c, c.tail) ELSE c

\* mutant: the entry at the head is never evicted
RECURSIVE evictToCapacity_KeepsHead(_)
evictToCapacity_KeepsHead(c) ==
    IF c.usedBytes > c.maxBytes /\ c.tail # NIL /\ c.tail # c.head
    THEN evictToCapacity_KeepsHead(removeNode(c, c.tail))
    ELSE c

RECURSIVE evictToCapacity(_)
evictToCapacity(c) ==
    IF c.usedBytes > c.maxBytes /\ c.tail # NIL
    THEN evictToCapacity(removeNode(c, c.tail))
    ELSE c

\* mutant: the walk stops at the first node that has not expired
RECURSIVE sweepFrom_StopsAtFresh(_, _, _)
sweepFrom_StopsAtFresh(c, current, t) ==
    IF current = NIL THEN c
    ELSE LET prev == c.items[current].prev
         IN  IF After(t, c.items[current].expiresAt)
             THEN sweepFrom_StopsAtFresh(removeNode(c, current), prev, t)
             ELSE c

\* the loop of cleanupExpired from node current towards the head
RECURSIVE sweepFrom(_, _, _)
sweepFrom(c, current, t) ==
    IF current = NIL THEN c
    ELSE LET prev == c.items[current].prev
         IN  IF After(t, c.items[current].expiresAt)
             THEN sweepFrom(removeNode(c, current), prev, t)
             ELSE sweepFrom(c, prev, t)

cleanupExpired(c, t) == sweepFrom(c, c.tail, t)

\* mutant: a hit is returned without promoting the node to the head
Get_NoPromote(c, key, t) ==
    IF key \notin DOMAIN c.items
    THEN [cache |-> c, value |-> << >>, found |-> FALSE, reason |-> "not_found"]
    ELSE IF After(t, c.items[key].expiresAt)
    THEN [cache |-> removeNode(c, key), value |-> << >>, found |-> FALSE,
          reason |-> "expired"]
    ELSE [cache |-> c, value |-> c.items[key].value, found |-> TRUE, reason |-> "hit"]

\* mutant: an expired hit is reported as a miss but the entry is left in place
Get_ExpiredKept(c, key, t) ==
    IF key \notin DOMAIN c.items
    THEN [cache |-> c, value |-> << >>, found |-> FALSE, reason |-> "not_found"]
    ELSE IF After(t, c.items[key].expiresAt)
    THEN [cache |-> c, value |-> << >>, found |-> FALSE, reason |-> "expired"]
    ELSE [cache |-> moveToHead(c, key), value |-> c.items[key].value, found |-> TRUE,
          reason |-> "hit"]

\* Get: the cache after the call, the returned copy and the found flag
Get(c, key, t) ==
    IF key \notin DOMAIN c.items
    THEN [cache |-> c, value |-> << >>, found |-> FALSE, reason |-> "not_found"]
    ELSE IF After(t, c.items[key].expiresAt)
    THEN [cache |-> removeNode(c, key), value |-> << >>, found |-> FALSE,
          reason |-> "expired"]
    ELSE [cache |-> moveToHead(c, key), value |-> c.items[key].value, found |-> TRUE,
          reason |-> "hit"]

\* mutant: an overwrite adds the new size without taking the old size off
storeExisting_NoSubtract(c, key, value, t) ==
    LET size == approximateSize(key, value)
        c2 == [c EXCEPT !.items[key].value = value,
                        !.items[key].sizeBytes = size,
                        !.items[key].expiresAt = t + c.ttl]
        c3 == moveToHead(c2, key)
    IN  [c3 EXCEPT !.usedBytes = c3.usedBytes + size]

\* mutant: an overwrite keeps the deadline of the entry it replaces
storeExisting_KeepsDeadline(c, key, value, t) ==
    LET size == approximateSize(key, value)
        c1 == [c EXCEPT !.usedBytes = c.usedBytes - c.items[key].sizeBytes]
        c2 == [c1 EXCEPT !.items[key].value = value,
                         !.items[key].sizeBytes = size]
        c3 == moveToHead(c2, key)
    IN  [c3 EXCEPT !.usedBytes = c3.usedBytes + size]

\* mutant: an overwrite leaves the entry where it is in the list
storeExisting_InPlace(c, key, value, t) ==
    LET size == approximateSize(key, value)
        c1 == [c EXCEPT !.usedBytes = c.usedBytes - c.items[key].sizeBytes]
        c2 == [c1 EXCEPT !.items[key].value = value,
                         !.items[key].sizeBytes = size,
                         !.items[key].expiresAt = t + c.ttl]
    IN  [c2 EXCEPT !.usedBytes = c2.usedBytes + size]

storeExisting(c, key, value, t) ==
    LET size == approximateSize(key, value)
        c1 == [c EXCEPT !.usedBytes = c.usedBytes - c.items[key].sizeBytes]
        c2 == [c1 EXCEPT !.items[key].value = value,
                         !.items[key].sizeBytes = size,
                         !.items[key].expiresAt = t + c.ttl]
        c3 == moveToHead(c2, key)
    IN  [c3 EXCEPT !.usedBytes = c3.usedBytes + size]

storeNew(c, key, value, t) ==
    LET size == approximateSize(key, value)
        newNode == [value |-> value, sizeBytes |-> size, expiresAt |-> t + c.ttl,
                    prev |-> NIL, next |-> NIL]
        c1 == [c EXCEPT !.items = [k \in DOMAIN c.items \cup {key} |->
                                      IF k = key THEN newNode ELSE c.items[k]]]
        c2 == insertAtHead(c1, key)
    IN  [c2 EXCEPT !.usedBytes = c2.usedBytes + size]

\* the insert-or-update half of Store, before evictToCapacity
storeUpsert(c, key, value, t) ==
    IF key \in DOMAIN c.items
    THEN storeExisting(c, key, value, t)
    ELSE storeNew(c, key, value, t)

Store(c, key, value, t) == evictToCapacity(storeUpsert(c, key, value, t))

\* the keys met walking the next links from node k, at most n of them
RECURSIVE WalkNext(_, _, _)
WalkNext(c, k, n) ==
    IF k = NIL \/ n = 0 \/ k \notin DOMAIN c.items THEN << >>
    ELSE <<k>> \o WalkNext(c, c.items[k].next, n - 1)

\* the recency list from head to tail
ListFromHead(c) == WalkNext(c, c.head, Cardinality(DOMAIN c.items) + 1)

\* history: key k was accessed, then only the keys in live remain
Touch(h, k, live) == SelectKeys(<<k>> \o Without(h, k), live)

----------------------------------------------------------------------------
(* CircuitBreakerManager: circuitbreaker.go *)

\* FailuresToOpen = 5
FailuresToOpen == 5

\* OpenCooldown = 30 * time.Second
OpenCooldown == 30

\* the zero time.Time of a Breaker that never opened: longer ago than any cooldown
ZeroTime == 0 - OpenCooldown

\* time.Since(u) at time t
Since(t, u) == t - u

NewCircuitBreakerManager == << >>

\* &Breaker{State: Closed, Failures: 0}
NewBreaker == [State |-> "Closed", Failures |-> 0, LastOpenTime |-> ZeroTime, InFlight |-> 0]

\* cbm.breakers[serverName] = breaker
PutBreaker(b, name, breaker) ==
    [n \in DOMAIN b \cup {name} |-> IF n = name THEN breaker ELSE b[n]]

\* AllowRequest: the breaker table after the call and the returned flag
AllowRequest(b, name, t) ==
    LET b1 == IF name \in DOMAIN b THEN b ELSE PutBreaker(b, name, NewBreaker)
        breaker == b1[name]
    IN  CASE breaker.State = "Closed" -> [breakers |-> b1, allowed |-> TRUE]
          [] breaker.State = "Open" ->
                IF Since(t, breaker.LastOpenTime) >= OpenCooldown
                THEN [breakers |-> [b1 EXCEPT ![name].State = "HalfOpen",
                                              ![name].InFlight = 0],
                      allowed |-> TRUE]
                ELSE [breakers |-> b1, allowed |-> FALSE]
          [] breaker.State = "HalfOpen" ->
                IF breaker.InFlight = 0
                THEN [breakers |-> [b1 EXCEPT ![name].InFlight = @ + 1], allowed |-> TRUE]
                ELSE [breakers |-> b1, allowed |-> FALSE]

\* mutant: a success in Closed leaves the failure counter as it is
OnSuccess_KeepsCount(b, name) ==
    IF name \notin DOMAIN b THEN b
    ELSE IF b[name].State = "HalfOpen"
    THEN [b EXCEPT ![name].Failures = 0, ![name].State = "Closed", ![name].InFlight = 0]
    ELSE b

OnSuccess(b, name) ==
    IF name \notin DOMAIN b THEN b
    ELSE LET b1 == [b EXCEPT ![name].Failures = 0]
         IN  IF b1[name].State = "HalfOpen"
             THEN [b1 EXCEPT ![name].State = "Closed", ![name].InFlight = 0]
             ELSE b1

\* mutant: a failure is counted against every breaker of the table
OnFailure_CountsForAll(b, name, t) ==
    LET b1 == IF name \in DOMAIN b THEN b ELSE PutBreaker(b, name, NewBreaker)
        b2 == [n \in DOMAIN b1 |-> [b1[n] EXCEPT !.Failures = @ + 1]]
        breaker == b2[name]
    IN  CASE breaker.State = "HalfOpen" ->
                [b2 EXCEPT ![name].State = "Open", ![name].LastOpenTime = t,
                           ![name].InFlight = 0]
          [] breaker.State = "Closed" ->
                IF breaker.Failures >= FailuresToOpen
                THEN [b2 EXCEPT ![name].State = "Open", ![name].LastOpenTime = t]
                ELSE b2
          [] breaker.State = "Open" -> b2

\* mutant: a failed probe reopens the breaker with the open timestamp it had
OnFailure_StaleOpenTime(b, name, t) ==
    LET b1 == IF name \in DOMAIN b THEN b ELSE PutBreaker(b, name, NewBreaker)
        b2 == [b1 EXCEPT ![name].Failures = @ + 1]
        breaker == b2[name]
    IN  CASE breaker.State = "HalfOpen" ->
                [b2 EXCEPT ![name].State = "Open", ![name].InFlight = 0]
          [] breaker.State = "Closed" ->
                IF breaker.Failures >= FailuresToOpen
                THEN [b2 EXCEPT ![name].State = "Open", ![name].LastOpenTime = t]
                ELSE b2
          [] breaker.State = "Open" -> b2

\* mutant: a failed probe reopens the breaker without clearing InFlight
OnFailure_KeepsInFlight(b, name, t) ==
    LET b1 == IF name \in DOMAIN b THEN b ELSE PutBreaker(b, name, NewBreaker)
        b2 == [b1 EXCEPT ![name].Failures = @ + 1]
        breaker == b2[name]
    IN  CASE breaker.State = "HalfOpen" ->
                [b2 EXCEPT ![name].State = "Open", ![name].LastOpenTime = t]
          [] breaker.State = "Closed" ->
                IF breaker.Failures >= FailuresToOpen
                THEN [b2 EXCEPT ![name].State = "Open", ![name].LastOpenTime = t]
                ELSE b2
          [] breaker.State = "Open" -> b2

\* mutant: the breaker opens one failure late (> for >=)
OnFailure_OpensLate(b, name, t) ==
    LET b1 == IF name \in DOMAIN b THEN b ELSE PutBreaker(b, name, NewBreaker)
        b2 == [b1 EXCEPT ![name].Failures = @ + 1]
        breaker == b2[name]
    IN  CASE breaker.State = "HalfOpen" ->
                [b2 EXCEPT ![name].State = "Open", ![name].LastOpenTime = t,
                           ![name].InFlight = 0]
          [] breaker.State = "Closed" ->
                IF breaker.Failures > FailuresToOpen
                THEN [b2 EXCEPT ![name].State = "Open", ![name].LastOpenTime = t]
                ELSE b2
          [] breaker.State = "Open" -> b2

OnFailure(b, name, t) ==
    LET b1 == IF name \in DOMAIN b THEN b ELSE PutBreaker(b, name, NewBreaker)
        b2 == [b1 EXCEPT ![name].Failures = @ + 1]
        breaker == b2[name]
    IN  CASE breaker.State = "HalfOpen" ->
                [b2 EXCEPT ![name].State = "Open", ![name].LastOpenTime = t,
                           ![name].InFlight = 0]
          [] breaker.State = "Closed" ->
                IF breaker.Failures >= FailuresToOpen
                THEN [b2 EXCEPT ![name].State = "Open", ![name].LastOpenTime = t]
                ELSE b2
          [] breaker.State = "Open" -> b2

OnRequestComplete(b, name) ==
    IF name \notin DOMAIN b THEN b
    ELSE IF b[name].State = "HalfOpen" /\ b[name].InFlight > 0
    THEN [b EXCEPT ![name].InFlight = @ - 1]
    ELSE b

\* GetBreakerState: Closed for an unknown server
GetBreakerState(b, name) == IF name \in DOMAIN b THEN b[name].State ELSE "Closed"

RemoveBreaker(b, name) == Restrict(b, DOMAIN b \ {name})

\* mutant: the reset closes the breaker and keeps its failure count
ResetBreaker_KeepsFailures(b, name) ==
    IF name \notin DOMAIN b THEN b
    ELSE [b EXCEPT ![name].State = "Closed", ![name].InFlight = 0]

ResetBreaker(b, name) ==
    IF name \notin DOMAIN b THEN b
    ELSE [b EXCEPT ![name].State = "Closed", ![name].Failures = 0, ![name].InFlight = 0]

----------------------------------------------------------------------------
(* Actions of the breaker table.  Each call holds cbm.mu for its whole body, so   *)
(* each is one step.                                                              *)

\* k calls of OnFailure(name) at time t
RECURSIVE FailTimes(_, _, _, _)
FailTimes(b, name, k, t) ==
    IF k = 0 THEN b ELSE FailTimes(OnFailure(b, name, t), name, k - 1, t)

NoCbRet == [op |-> "none", name |-> "", allowed |-> FALSE]

NoFailRun == [n |-> 0, since |-> 0]

BreakerIdle ==
    /\ breakers = NewCircuitBreakerManager
    /\ cbRet = NoCbRet
    /\ failRun = [n \in Names |-> NoFailRun]
    /\ probes = [n \in Names |-> 0]

\* the breaker of name is Closed with no failure counted (an unknown name is created so)
FreshClosed(b, name) ==
    name \in DOMAIN b => (b[name].State = "Closed" /\ b[name].Failures = 0)

CbAllowRequest(name) ==
    LET r == AllowRequest(breakers, name, now)
    IN  /\ breakers' = r.breakers
        /\ cbRet' = [op |-> "AllowRequest", name |-> name, allowed |-> r.allowed]
        \* the first admission after a run of FailuresToOpen failures ends the run
        /\ failRun' = IF r.allowed /\ failRun[name].n >= FailuresToOpen
                      THEN [failRun EXCEPT ![name] = NoFailRun]
                      ELSE failRun
        \* an admission by a breaker that is, or becomes, HalfOpen is a probe
        /\ probes' = IF r.allowed /\ r.breakers[name].State = "HalfOpen"
                     THEN [probes EXCEPT ![name] = @ + 1]
                     ELSE probes
        /\ UNCHANGED <<sideVars, now, notBreaker>>

CbOnSuccess(name) ==
    /\ breakers' = OnSuccess(breakers, name)
    /\ cbRet' = NoCbRet
    /\ failRun' = IF failRun[name].n < FailuresToOpen
                  THEN [failRun EXCEPT ![name] = NoFailRun]
                  ELSE failRun
    /\ probes' = [probes EXCEPT ![name] = 0]
    /\ UNCHANGED <<sideVars, now, notBreaker>>

CbOnFailure(name) ==
    /\ name \in DOMAIN breakers => breakers[name].Failures < MaxFailures
    /\ breakers' = OnFailure(breakers, name, now)
    /\ cbRet' = NoCbRet
    /\ failRun' =
          IF failRun[name].n >= FailuresToOpen THEN failRun
          ELSE IF failRun[name].n >= 1 \/ FreshClosed(breakers, name)
          THEN [failRun EXCEPT ![name] = [n |-> @.n + 1, since |-> now]]
          ELSE failRun
    /\ probes' = [probes EXCEPT ![name] = 0]
    /\ UNCHANGED <<sideVars, now, notBreaker>>

CbOnRequestComplete(name) ==
    /\ breakers' = OnRequestComplete(breakers, name)
    /\ cbRet' = NoCbRet
    /\ probes' = [probes EXCEPT ![name] = 0]
    /\ UNCHANGED <<sideVars, now, failRun, notBreaker>>

CbResetBreaker(name) ==
    /\ breakers' = ResetBreaker(breakers, name)
    /\ cbRet' = NoCbRet
    /\ failRun' = [failRun EXCEPT ![name] = NoFailRun]
    /\ probes' = [probes EXCEPT ![name] = 0]
    /\ UNCHANGED <<sideVars, now, notBreaker>>

CbRemoveBreaker(name) ==
    /\ breakers' = RemoveBreaker(breakers, name)
    /\ cbRet' = NoCbRet
    /\ failRun' = [failRun EXCEPT ![name] = NoFailRun]
    /\ probes' = [probes EXCEPT ![name] = 0]
    /\ UNCHANGED <<sideVars, now, notBreaker>>

----------------------------------------------------------------------------
(* Registry: internal/registry/registry.go *)

\* strings.HasPrefix(s, prefix)
HasPrefix(s, prefix) ==
    Len(prefix) <= Len(s) /\ SubSeq(s, 1, Len(prefix)) = prefix

\* the orders in which a range over a map with key set S can visit the keys: Go
\* leaves the order unspecified and it may differ from one loop to the next
IterationOrders(S) ==
    { o \in [1..Cardinality(S) -> S] : \A i, j \in 1..Cardinality(S) : o[i] = o[j] => i = j }

NewRegistry == << >>

NewServer(name, prefixes) ==
    [Name |-> name, BaseURL |-> BaseURLOf(name), Prefixes |-> prefixes]

\* mutant: registering an existing name replaces its record
Register_Upsert(r, s) ==
    [servers |-> [n \in DOMAIN r \cup {s.Name} |-> IF n = s.Name THEN s ELSE r[n]],
     err |-> FALSE]

\* Register: the table after the call and whether an error was returned
Register(r, s) ==
    IF s.Name \in DOMAIN r
    THEN [servers |-> r, err |-> TRUE]
    ELSE [servers |-> [n \in DOMAIN r \cup {s.Name} |-> IF n = s.Name THEN s ELSE r[n]],
          err |-> FALSE]

Deregister(r, name) ==
    IF name \notin DOMAIN r
    THEN [servers |-> r, err |-> TRUE]
    ELSE [servers |-> Restrict(r, DOMAIN r \ {name}), err |-> FALSE]

\* mutant: the last matching prefix wins, whatever its length
LongestOfServer_AnyMatch(prefixes, i, requestPath, longestPrefix) ==
    LET match == { j \in i..Len(prefixes) : HasPrefix(requestPath, prefixes[j]) }
    IN  IF match = {} THEN longestPrefix
        ELSE prefixes[CHOOSE j \in match : \A k \in match : k <= j]

\* first pass, inner loop over server.Prefixes from index i
RECURSIVE LongestOfServer(_, _, _, _)
LongestOfServer(prefixes, i, requestPath, longestPrefix) ==
    IF i > Len(prefixes) THEN longestPrefix
    ELSE IF HasPrefix(requestPath, prefixes[i]) /\ Len(prefixes[i]) > Len(longestPrefix)
    THEN LongestOfServer(prefixes, i + 1, requestPath, prefixes[i])
    ELSE LongestOfServer(prefixes, i + 1, requestPath, longestPrefix)

\* first pass, outer loop over r.servers in the order the range visits them
RECURSIVE LongestPass(_, _, _, _, _)
LongestPass(r, order, i, requestPath, longestPrefix) ==
    IF i > Len(order) THEN longestPrefix
    ELSE LongestPass(r, order, i + 1, requestPath,
                     LongestOfServer(r[order[i]].Prefixes, 1, requestPath, longestPrefix))

\* second pass, inner loop: the server has the prefix (append once, then break)
HasExactPrefix(prefixes, longestPrefix) ==
    \E i \in 1..Len(prefixes) : prefixes[i] = longestPrefix

\* second pass, outer loop
RECURSIVE CollectPass(_, _, _, _)
CollectPass(r, order, i, longestPrefix) ==
    IF i > Len(order) THEN << >>
    ELSE (IF HasExactPrefix(r[order[i]].Prefixes, longestPrefix)
          THEN << r[order[i]] >> ELSE << >>)
         \o CollectPass(r, order, i + 1, longestPrefix)

\* ServersForPath with the iteration orders of its two range loops
ServersForPath(r, requestPath, order1, order2) ==
    LET longestPrefix == LongestPass(r, order1, 1, requestPath, << >>)
        matchingServers == IF longestPrefix # << >>
                           THEN CollectPass(r, order2, 1, longestPrefix)
                           ELSE << >>
    IN  [prefix |-> longestPrefix, servers |-> matchingServers,
         found |-> Len(matchingServers) > 0]

----------------------------------------------------------------------------
(* Actions of the registry.  Each call holds r.mu for its whole body.             *)

\* op and result of the last call: the error of Register / Deregister with the
\* name and the prefixes they were given, the three results of ServersForPath
NoRegRet ==
    [op |-> "none", err |-> FALSE, name |-> "", given |-> << >>,
     path |-> << >>, prefix |-> << >>, servers |-> << >>, found |-> FALSE]

RegistryIdle ==
    /\ servers = NewRegistry
    /\ regRet = NoRegRet

RegRegister(s) ==
    LET r == Register(servers, s)
    IN  /\ servers' = r.servers
        /\ regRet' = [NoRegRet EXCEPT !.op = "Register", !.err = r.err,
                                      !.name = s.Name, !.given = s.Prefixes]
        /\ UNCHANGED <<sideVars, now, notRegistry>>

RegDeregister(name) ==
    LET r == Deregister(servers, name)
    IN  /\ servers' = r.servers
        /\ regRet' = [NoRegRet EXCEPT !.op = "Deregister", !.err = r.err,
                                      !.name = name]
        /\ UNCHANGED <<sideVars, now, notRegistry>>

RegServersForPath(requestPath) ==
    \E order1, order2 \in IterationOrders(DOMAIN servers) :
        LET r == ServersForPath(servers, requestPath, order1, order2)
        IN  /\ regRet' = [NoRegRet EXCEPT !.op = "ServersForPath", !.path = requestPath,
                                          !.prefix = r.prefix, !.servers = r.servers,
                                          !.found = r.found]
            /\ UNCHANGED <<sideVars, now, servers, notRegistry>>

----------------------------------------------------------------------------
(* PostgreSQLRegistry: the registry kept in table services (name UNIQUE), with    *)
(* the queries RegisterService, DeleteService, GetService and GetAllServices.     *)
(* A query that reaches the database returns no error of its own.                 *)

\* ORDER BY name
NameOrder == << "s1", "s2", "s3" >>

\* an empty table services
NewPostgreSQLRegistry == << >>

\* RegisterService: INSERT ... ON CONFLICT (name) DO UPDATE SET base_url, prefixes
RegisterService(rows, s) ==
    [n \in DOMAIN rows \cup {s.Name} |-> IF n = s.Name THEN s ELSE rows[n]]

\* DeleteService: DELETE FROM services WHERE name = $1
DeleteService(rows, name) == Restrict(rows, DOMAIN rows \ {name})

\* GetAllServices: SELECT * FROM services ORDER BY name
GetAllServices(rows) == SelectKeys(NameOrder, DOMAIN rows)

\* PostgreSQLRegistry.Register: the rows after the call and whether it returned an
\* error
PgRegister(rows, s) == [services |-> RegisterService(rows, s), err |-> FALSE]

\* PostgreSQLRegistry.Deregister
PgDeregister(rows, name) == [services |-> DeleteService(rows, name), err |-> FALSE]

\* PostgreSQLRegistry.GetServers
PgGetServers(rows) ==
    LET services == GetAllServices(rows)
    IN  [i \in 1..Len(services) |-> rows[services[i]]]

\* PostgreSQLRegistry.GetServer: sql.ErrNoRows is "server not found"
PgGetServer(rows, name) ==
    IF name \in DOMAIN rows
    THEN [servers |-> << rows[name] >>, err |-> FALSE]
    ELSE [servers |-> << >>, err |-> TRUE]

\* PostgreSQLRegistry.ServersForPath: both loops range over the rows in name order
PgServersForPath(rows, requestPath) ==
    LET services == GetAllServices(rows)
        longestPrefix == LongestPass(rows, services, 1, requestPath, << >>)
        matchingServers == IF longestPrefix # << >>
                           THEN CollectPass(rows, services, 1, longestPrefix)
                           ELSE << >>
    IN  [prefix |-> longestPrefix, servers |-> matchingServers,
         found |-> Len(matchingServers) > 0]

\* Registry.ListRegistered / GetServers, in the order the range visits the map
ListRegistered(r, order) == [i \in 1..Len(order) |-> r[order[i]]]

\* Registry.GetServer
GetServer(r, name) ==
    IF name \in DOMAIN r
    THEN [servers |-> << r[name] >>, err |-> FALSE]
    ELSE [servers |-> << >>, err |-> TRUE]

PgIdle == pg = [services |-> NewPostgreSQLRegistry, ret |-> NoRegRet]

\* what both registries leave alone
notRegistries == <<now, notRegistry, hm, lk, fetched, rrs, pr>>

\* the same call made on the in-memory Registry and on the PostgreSQLRegistry
BothRegister(s) ==
    LET r == Register(servers, s)
        q == PgRegister(pg.services, s)
        ret == [NoRegRet EXCEPT !.op = "Register", !.name = s.Name, !.given = s.Prefixes]
    IN  /\ servers' = r.servers
        /\ regRet' = [ret EXCEPT !.err = r.err]
        /\ pg' = [services |-> q.services, ret |-> [ret EXCEPT !.err = q.err]]
        /\ UNCHANGED notRegistries

\* mutant: deregistration also drops the health record and the breaker of the name
BothDeregister_Cleans(name) ==
    LET r == Deregister(servers, name)
        q == PgDeregister(pg.services, name)
        ret == [NoRegRet EXCEPT !.op = "Deregister", !.name = name]
    IN  /\ servers' = r.servers
        /\ regRet' = [ret EXCEPT !.err = r.err]
        /\ pg' = [services |-> q.services, ret |-> [ret EXCEPT !.err = q.err]]
        /\ healthMap' = Restrict(healthMap, DOMAIN healthMap \ {name})
        /\ breakers' = Restrict(breakers, DOMAIN breakers \ {name})
        /\ UNCHANGED <<now, cacheVars, cbRet, failRun, probes, routerVars,
                       hm, lk, fetched, rrs, pr>>

BothDeregister(name) ==
    LET r == Deregister(servers, name)
        q == PgDeregister(pg.services, name)
        ret == [NoRegRet EXCEPT !.op = "Deregister", !.name = name]
    IN  /\ servers' = r.servers
        /\ regRet' = [ret EXCEPT !.err = r.err]
        /\ pg' = [services |-> q.services, ret |-> [ret EXCEPT !.err = q.err]]
        /\ UNCHANGED notRegistries

BothGetServers ==
    \E order \in IterationOrders(DOMAIN servers) :
        LET ret == [NoRegRet EXCEPT !.op = "GetServers"]
        IN  /\ regRet' = [ret EXCEPT !.servers = ListRegistered(servers, order)]
            /\ pg' = [pg EXCEPT !.ret = [ret EXCEPT !.servers = PgGetServers(pg.services)]]
            /\ UNCHANGED <<servers, notRegistries>>

BothGetServer(name) ==
    LET r == GetServer(servers, name)
        q == PgGetServer(pg.services, name)
        ret == [NoRegRet EXCEPT !.op = "GetServer", !.name = name]
    IN  /\ regRet' = [ret EXCEPT !.servers = r.servers, !.err = r.err]
        /\ pg' = [pg EXCEPT !.ret = [ret EXCEPT !.servers = q.servers, !.err = q.err]]
        /\ UNCHANGED <<servers, notRegistries>>

BothServersForPath(requestPath) ==
    \E order1, order2 \in IterationOrders(DOMAIN servers) :
        LET r == ServersForPath(servers, requestPath, order1, order2)
            q == PgServersForPath(pg.services, requestPath)
            ret == [NoRegRet EXCEPT !.op = "ServersForPath", !.path = requestPath]
        IN  /\ regRet' = [ret EXCEPT !.prefix = r.prefix, !.servers = r.servers,
                                     !.found = r.found]
            /\ pg' = [pg EXCEPT !.ret = [ret EXCEPT !.prefix = q.prefix,
                                                    !.servers = q.servers,
                                                    !.found = q.found]]
            /\ UNCHANGED <<servers, notRegistries>>

----------------------------------------------------------------------------
(* HealthMonitor: the health table (health.go).  LastChecked and                  *)
(* LastResponseTime are written but never read by a decision and are left out.    *)

\* UnhealthyThreshold = 3
UnhealthyThreshold == 3

NewHealthMonitor == << >>

\* &HealthStatus{IsHealthy: false, ConsecutiveFailures: 0}
NewHealthStatus == [IsHealthy |-> FALSE, ConsecutiveFailures |-> 0]

\* mutant: a single failed probe marks the server unhealthy
updateHealthStatus_Hasty(h, serverName, isHealthy) ==
    LET status == IF serverName \in DOMAIN h THEN h[serverName] ELSE NewHealthStatus
    IN  [n \in DOMAIN h \cup {serverName} |->
            IF n # serverName THEN h[n]
            ELSE IF isHealthy THEN [IsHealthy |-> TRUE, ConsecutiveFailures |-> 0]
            ELSE [IsHealthy |-> FALSE,
                  ConsecutiveFailures |-> status.ConsecutiveFailures + 1]]

updateHealthStatus(h, serverName, isHealthy) ==
    LET status == IF serverName \in DOMAIN h THEN h[serverName] ELSE NewHealthStatus
        updated ==
            IF isHealthy
            THEN [IsHealthy |-> TRUE, ConsecutiveFailures |-> 0]
            ELSE [IsHealthy |-> IF status.ConsecutiveFailures + 1 >= UnhealthyThreshold
                                THEN FALSE ELSE status.IsHealthy,
                  ConsecutiveFailures |-> status.ConsecutiveFailures + 1]
    IN  [n \in DOMAIN h \cup {serverName} |-> IF n = serverName THEN updated ELSE h[n]]

\* mutant: a server with no record counts as healthy
IsHealthy_DefaultTrue(h, serverName) ==
    IF serverName \in DOMAIN h THEN h[serverName].IsHealthy ELSE TRUE

\* IsHealthy: false for a server with no record
IsHealthy(h, serverName) ==
    IF serverName \in DOMAIN h THEN h[serverName].IsHealthy ELSE FALSE

\* delete(hm.healthMap, serverName)
RemoveServer(h, serverName) == Restrict(h, DOMAIN h \ {serverName})

HealthIdle == healthMap = NewHealthMonitor

----------------------------------------------------------------------------
(* ResilientRouter.ResolveBackend (router.go) and the handlers' reports to the    *)
(* breaker (handlers.go).  ResolveBackend takes the registry lock, then for each  *)
(* candidate the health lock and the breaker lock, then the round-robin lock: one *)
(* step per critical section.                                                     *)

\* rr.roundRobinIndex[prefix]: 0 for a prefix with no counter yet
RoundRobinAt(idx, prefix) == IF prefix \in DOMAIN idx THEN idx[prefix] ELSE 0

\* rr.roundRobinIndex[prefix]++
RoundRobinInc(idx, prefix) ==
    [p \in DOMAIN idx \cup {prefix} |->
        IF p = prefix THEN RoundRobinAt(idx, prefix) + 1 ELSE idx[p]]

\* strings.TrimPrefix(s, prefix)
TrimPrefix(s, prefix) ==
    IF HasPrefix(s, prefix) THEN SubSeq(s, Len(prefix) + 1, Len(s)) ELSE s

\* what ResolveBackend returned to the handler, with the history of the request:
\* reports counts the OnSuccess / OnFailure calls the handler made for it
NoResult ==
    [ok |-> FALSE, err |-> "", server |-> "", targetURL |-> << >>, prefix |-> << >>,
     reports |-> 0]

\* what the handler wrote to the client: from the cache, from a backend, or an error
NoResponse == [from |-> "", path |-> << >>, status |-> 0, body |-> << >>]

\* http.Error(w, "Service Unavailable", http.StatusServiceUnavailable)
ServiceUnavailable == [NoResponse EXCEPT !.from = "error", !.status = 503]

\* a goroutine that is not serving a request; result is what its last ResolveBackend
\* returned
IdleReq(result) ==
    [pc |-> "idle", method |-> "", path |-> << >>, prefix |-> << >>,
     candidates |-> << >>, i |-> 0,
     isHealthy |-> FALSE, healthyServers |-> << >>, result |-> result,
     status |-> 0, response |-> NoResponse,
     sick |-> {}, sawHealthy |-> {}, allowedBy |-> {}]

RouterIdle ==
    /\ roundRobinIndex = << >>
    /\ req = [t \in RouterThreads |-> IdleReq(NoResult)]
    /\ picks = << >>

\* mutant: a healthy candidate is eligible whatever its breaker says
Eligible_HealthOnly(isHealthy, allowedByBreaker) == isHealthy

\* mutant: a candidate admitted by its breaker is eligible whatever its health
Eligible_BreakerOnly(isHealthy, allowedByBreaker) == allowedByBreaker

\* if isHealthy && allowedByBreaker
Eligible(isHealthy, allowedByBreaker) == isHealthy /\ allowedByBreaker

\* what the breaker table says of every name, a name without a record being Closed
BreakerView(b) == [n \in Names |-> IF n \in DOMAIN b THEN b[n] ELSE NewBreaker]

\* the history of picks after a step to the breaker table b and health table h
PicksAfter(b, h) ==
    IF BreakerView(b) = BreakerView(breakers) /\ h = healthMap THEN picks ELSE << >>

\* a POST request for requestPath reaches HandlePostRequest
RtPost(t, requestPath) ==
    /\ req[t].pc = "idle"
    /\ \A p \in DOMAIN roundRobinIndex : roundRobinIndex[p] < MaxRR
    /\ req' = [req EXCEPT ![t] = [IdleReq(NoResult) EXCEPT
                  !.pc = "route", !.method = "POST", !.path = requestPath]]
    /\ UNCHANGED <<sideVars, now, cacheVars, breakerVars, registryVars, healthMap,
                   roundRobinIndex, picks>>

\* rr.app.Registry.ServersForPath(requestPath); no_route when nothing matches
RtResolve(t) ==
    /\ req[t].pc = "route"
    /\ \E order1, order2 \in IterationOrders(DOMAIN servers) :
          LET requestPath == req[t].path
              r == ServersForPath(servers, requestPath, order1, order2)
          IN  req' = [req EXCEPT ![t] =
                  IF r.prefix = << >> \/ ~r.found \/ Len(r.servers) = 0
                  THEN [IdleReq([NoResult EXCEPT !.err = "no_route"]) EXCEPT
                          !.response = ServiceUnavailable]
                  ELSE [IdleReq(NoResult) EXCEPT
                          !.pc = "health", !.method = req[t].method,
                          !.path = requestPath, !.prefix = r.prefix,
                          !.candidates = r.servers, !.i = 1,
                          !.sick = { n \in Names : ~IsHealthy(healthMap, n) }]]
    /\ UNCHANGED <<sideVars, now, cacheVars, breakerVars, registryVars, healthMap,
                   roundRobinIndex, picks>>

\* isHealthy := rr.app.HealthMonitor.IsHealthy(server.Name)
RtIsHealthy(t) ==
    /\ req[t].pc = "health"
    /\ LET name == req[t].candidates[req[t].i].Name
           isHealthy == IsHealthy(healthMap, name)
       IN  req' = [req EXCEPT ![t].pc = "breaker", ![t].isHealthy = isHealthy,
                              ![t].sawHealthy = IF isHealthy THEN @ \cup {name} ELSE @]
    /\ UNCHANGED <<sideVars, now, cacheVars, breakerVars, registryVars, healthMap,
                   roundRobinIndex, picks>>

\* allowedByBreaker := rr.app.CircuitBreaker.AllowRequest(server.Name) and the append
\* to healthyServers
RtAllowRequest(t) ==
    /\ req[t].pc = "breaker"
    /\ LET server == req[t].candidates[req[t].i]
           name == server.Name
           r == AllowRequest(breakers, name, now)
           healthyServers == IF Eligible(req[t].isHealthy, r.allowed)
                             THEN Append(req[t].healthyServers, server)
                             ELSE req[t].healthyServers
           last == req[t].i = Len(req[t].candidates)
       IN  /\ breakers' = r.breakers
           /\ cbRet' = cbRet
           /\ failRun' = IF r.allowed /\ failRun[name].n >= FailuresToOpen
                         THEN [failRun EXCEPT ![name] = NoFailRun]
                         ELSE failRun
           /\ probes' = IF r.allowed /\ r.breakers[name].State = "HalfOpen"
                        THEN [probes EXCEPT ![name] = @ + 1]
                        ELSE probes
           /\ picks' = PicksAfter(r.breakers, healthMap)
           /\ req' = [req EXCEPT ![t].pc = IF last THEN "select" ELSE "health",
                                 ![t].i = @ + 1,
                                 ![t].healthyServers = healthyServers,
                                 ![t].allowedBy = IF r.allowed THEN @ \cup {name} ELSE @]
    /\ UNCHANGED <<sideVars, now, cacheVars, registryVars, healthMap, roundRobinIndex>>

\* trimmedPath := strings.TrimPrefix(requestPath, prefix);
\* targetURL := chosen.BaseURL + trimmedPath
TargetURL(chosen, requestPath, prefix) == chosen.BaseURL \o TrimPrefix(requestPath, prefix)

\* the no_healthy_backends return, or the round-robin selection under rr.mu and the
\* returned BackendInfo
RtSelect(t) ==
    /\ req[t].pc = "select"
    /\ IF Len(req[t].healthyServers) = 0
       THEN /\ req' = [req EXCEPT ![t] =
                          [IdleReq([NoResult EXCEPT !.err = "no_healthy_backends"])
                              EXCEPT !.response = ServiceUnavailable]]
            /\ UNCHANGED <<roundRobinIndex, picks>>
       ELSE LET prefix == req[t].prefix
                index == RoundRobinAt(roundRobinIndex, prefix)
                            % Len(req[t].healthyServers)
                chosen == req[t].healthyServers[index + 1]
                pick == [prefix |-> prefix, server |-> chosen.Name]
            IN  /\ roundRobinIndex' = RoundRobinInc(roundRobinIndex, prefix)
                /\ req' = [req EXCEPT
                      ![t].pc = "resolved",
                      ![t].result =
                          [ok |-> TRUE, err |-> "", server |-> chosen.Name,
                           targetURL |-> TargetURL(chosen, req[t].path, prefix),
                           prefix |-> prefix, reports |-> 0]]
                /\ picks' = IF picks # << >> /\ picks[Len(picks)].prefix = prefix
                            THEN << picks[Len(picks)], pick >>
                            ELSE << pick >>
    /\ UNCHANGED <<sideVars, now, cacheVars, breakerVars, registryVars, healthMap>>

\* maxRetries := 3
maxRetries == 3

\* performRequest from attempt number attempt on; outcomes[k] is what the k-th
\* app.Client.Do meets: 0 for a transport error, else the status of the response
RECURSIVE performRequestFrom(_, _)
performRequestFrom(outcomes, attempt) ==
    LET o == outcomes[attempt]
    IN  IF o = 0
        THEN IF attempt < maxRetries
             THEN performRequestFrom(outcomes, attempt + 1)
             ELSE [err |-> TRUE, status |-> 0, attempts |-> attempt]
        ELSE IF o >= 500 /\ o <= 504 /\ attempt < maxRetries
             THEN performRequestFrom(outcomes, attempt + 1)
             ELSE [err |-> FALSE, status |-> o, attempts |-> attempt]

performRequest(outcomes) == performRequestFrom(outcomes, 1)

\* HandlePostRequest: io.ReadAll(r.Body) fails and the handler returns
RtReadBodyError(t) ==
    /\ req[t].pc = "resolved"
    /\ req[t].method = "POST"
    /\ req' = [req EXCEPT ![t] =
                  [IdleReq(req[t].result) EXCEPT
                      !.response = [NoResponse EXCEPT !.from = "error", !.status = 400]]]
    /\ UNCHANGED <<sideVars, now, cacheVars, breakerVars, registryVars, healthMap,
                   roundRobinIndex, picks>>

\* if err != nil, and if resp.StatusCode >= 500 && resp.StatusCode <= 599: the
\* handler calls OnFailure
ReportsFailure(resp) == resp.err \/ (resp.status >= 500 /\ resp.status <= 599)

\* performRequest and the handler's report of it: OnFailure and return on a
\* transport error, OnFailure on a 5xx response, OnSuccess otherwise
RtReport(t, outcomes) ==
    /\ req[t].pc = "resolved"
    /\ LET name == req[t].result.server
           resp == performRequest(outcomes)
           failed == ReportsFailure(resp)
           b == IF failed THEN OnFailure(breakers, name, now) ELSE OnSuccess(breakers, name)
           result == [req[t].result EXCEPT !.reports = @ + 1]
       IN  /\ failed => (name \in DOMAIN breakers => breakers[name].Failures < MaxFailures)
           /\ breakers' = b
           /\ cbRet' = cbRet
           /\ failRun' =
                 IF failed
                 THEN IF failRun[name].n >= FailuresToOpen THEN failRun
                      ELSE IF failRun[name].n >= 1 \/ FreshClosed(breakers, name)
                      THEN [failRun EXCEPT ![name] = [n |-> @.n + 1, since |-> now]]
                      ELSE failRun
                 ELSE IF failRun[name].n < FailuresToOpen
                      THEN [failRun EXCEPT ![name] = NoFailRun]
                      ELSE failRun
           /\ probes' = [probes EXCEPT ![name] = 0]
           /\ picks' = PicksAfter(b, healthMap)
           /\ req' = [req EXCEPT ![t] =
                         IF resp.err
                         THEN [IdleReq(result) EXCEPT !.response = ServiceUnavailable]
                         ELSE [@ EXCEPT !.pc = "complete", !.result = result,
                                        !.status = resp.status]]
    /\ UNCHANGED <<sideVars, now, cacheVars, registryVars, healthMap, roundRobinIndex>>

\* app.CircuitBreaker.OnRequestComplete(backend.Server.Name)
RtComplete(t) ==
    /\ req[t].pc = "complete"
    /\ LET name == req[t].result.server
           b == OnRequestComplete(breakers, name)
       IN  /\ breakers' = b
           /\ cbRet' = cbRet
           /\ probes' = [probes EXCEPT ![name] = 0]
           /\ picks' = PicksAfter(b, healthMap)
           /\ req' = [req EXCEPT ![t] =
                         IF req[t].method = "GET"
                         THEN [@ EXCEPT !.pc = "body"]
                         ELSE [IdleReq(req[t].result) EXCEPT
                                  !.response = [NoResponse EXCEPT !.from = "backend",
                                                   !.status = req[t].status]]]
    /\ UNCHANGED <<sideVars, now, cacheVars, failRun, registryVars, healthMap, roundRobinIndex>>

\* the result of one health probe of a registered backend is recorded
HmUpdate(name, isHealthy) ==
    /\ name \in DOMAIN servers
    /\ ~isHealthy =>
          (name \in DOMAIN healthMap =>
              healthMap[name].ConsecutiveFailures < MaxProbeFailures)
    /\ healthMap' = updateHealthStatus(healthMap, name, isHealthy)
    /\ picks' = PicksAfter(breakers, healthMap')
    /\ req' = [t \in RouterThreads |->
                  [req[t] EXCEPT !.sick = @ \cap { n \in Names : ~IsHealthy(healthMap', n) }]]
    /\ UNCHANGED <<sideVars, now, cacheVars, breakerVars, registryVars, roundRobinIndex>>

----------------------------------------------------------------------------
(* The mutexes: r.mu of the Registry, rc.mu of the ResponseCache, cbm.mu of the    *)
(* CircuitBreakerManager, hm.mu of the HealthMonitor and rr.mu of the              *)
(* ResilientRouter, and the order in which each goroutine locks and unlocks them.  *)

LockNames == { "registry", "cache", "breaker", "health", "rr" }

\* the goroutines: a GET handler, a POST handler, the cache's Cleanup loop, the
\* health monitor's Start loop, one of its probes, and a registration handler
Units == { "get", "post", "cleanup", "monitor", "probe", "admin" }

\* a method that locks mu (Lock for mode "W", RLock for "R"), defers the unlock and
\* calls nothing that takes another mutex
Critical(l, mode) ==
    << [op |-> "lock", lock |-> l, mode |-> mode],
       [op |-> "unlock", lock |-> l, mode |-> mode] >>

\* IsHealthy then AllowRequest for one candidate of the filter loop
CandidateLocks == Critical("health", "R") \o Critical("breaker", "W")

\* mutant: the round-robin counter is read with rr.mu taken before the filter loop
\* and released after it
ResolveBackendLocks_Nested ==
    Critical("registry", "R")
        \o << [op |-> "lock", lock |-> "rr", mode |-> "W"] >>
        \o CandidateLocks \o CandidateLocks
        \o << [op |-> "unlock", lock |-> "rr", mode |-> "W"] >>

\* ResolveBackend: ServersForPath, the filter loop over two candidates, the
\* round-robin selection
ResolveBackendLocks ==
    Critical("registry", "R") \o CandidateLocks \o CandidateLocks \o Critical("rr", "W")

\* OnFailure or OnSuccess, then OnRequestComplete
ReportLocks == Critical("breaker", "W") \o Critical("breaker", "W")

\* what each goroutine does with the mutexes, in program order
LockProgram(u) ==
    CASE u = "get" ->
            Critical("cache", "W") \o ResolveBackendLocks \o ReportLocks
                \o Critical("cache", "W")
      [] u = "post" -> ResolveBackendLocks \o ReportLocks
      [] u = "cleanup" -> Critical("cache", "W")
      [] u = "monitor" -> Critical("registry", "R")
      [] u = "probe" -> Critical("health", "W")
      [] u = "admin" -> Critical("registry", "W")

\* pc: the next operation of each goroutine; holders: who holds each mutex, and how
NewLockState ==
    [pc |-> [u \in Units |-> 1], holders |-> [l \in LockNames |-> {}]]

\* the mutexes goroutine u holds
HeldBy(u) == { l \in LockNames : \E h \in lk.holders[l] : h[1] = u }

\* the next operation of u, or none at the end of its program
NextOp(u) ==
    IF lk.pc[u] <= Len(LockProgram(u))
    THEN LockProgram(u)[lk.pc[u]]
    ELSE [op |-> "end", lock |-> "", mode |-> ""]

\* Lock needs the mutex free, RLock needs it free of a writer
Available(l, mode) ==
    IF mode = "W" THEN lk.holders[l] = {}
    ELSE \A h \in lk.holders[l] : h[2] = "R"

\* mu.Lock() / mu.RLock()
LkLock(u) ==
    /\ NextOp(u).op = "lock"
    /\ Available(NextOp(u).lock, NextOp(u).mode)
    /\ lk' = [lk EXCEPT !.pc[u] = @ + 1,
                        !.holders[NextOp(u).lock] = @ \cup { <<u, NextOp(u).mode>> }]
    /\ UNCHANGED <<now, cacheVars, breakerVars, registryVars, healthMap, routerVars,
                   hm, fetched, pg, rrs, pr>>

\* mu.Unlock() / mu.RUnlock()
LkUnlock(u) ==
    /\ NextOp(u).op = "unlock"
    /\ lk' = [lk EXCEPT !.pc[u] = @ + 1,
                        !.holders[NextOp(u).lock] = { h \in @ : h[1] # u }]
    /\ UNCHANGED <<now, cacheVars, breakerVars, registryVars, healthMap, routerVars,
                   hm, fetched, pg, rrs, pr>>

\* the goroutine ends (at the end of its program, or by an early return between
\* two calls) and the next one of its kind starts
LkReturn(u) ==
    /\ lk.pc[u] > 1
    /\ NextOp(u).op # "unlock"
    /\ lk' = [lk EXCEPT !.pc[u] = 1]
    /\ UNCHANGED <<now, cacheVars, breakerVars, registryVars, healthMap, routerVars,
                   hm, fetched, pg, rrs, pr>>

----------------------------------------------------------------------------
(* The HealthMonitor's goroutines (health.go): the Start loop launched by          *)
(* Application.Start, the probes of one checkAllServers generation, and            *)
(* Application.Shutdown / HealthMonitor.Stop.                                      *)

\* no IsHealthy call has returned yet
NoHealthRet == [name |-> "", value |-> FALSE, known |-> FALSE, proven |-> FALSE]
\* the last step was not the return of a probe
NoProbe == [name |-> "", ok |-> FALSE]

\* loop: where the Start goroutine is; ctxDone, stopCh, stopped: the closed
\* channels; stop: where the caller of Shutdown / Stop is; gen: generations of
\* checkAllServers started; inflight: <<name, generation>> of the probes running.
\* History: ret, what the last IsHealthy returned, whether a record existed then
\* and whether that record had seen a successful probe;
\* last, the probe result recorded by the last step; streak, per name the failed
\* probe results in a row; succeeded, the names whose record has seen a success
NewMonitorState ==
    [loop |-> "notStarted", ctxDone |-> FALSE, stopCh |-> FALSE, stopped |-> FALSE,
     stop |-> "none", gen |-> 0, inflight |-> {},
     ret |-> NoHealthRet, last |-> NoProbe,
     streak |-> [n \in Names |-> 0], succeeded |-> {}]

MonitorIdle == hm = NewMonitorState

\* servers := hm.registry.ListRegistered() and one goroutine per server
checkAllServers(h, r) ==
    [h EXCEPT !.loop = "checking", !.gen = @ + 1,
              !.inflight = @ \cup { <<n, h.gen + 1>> : n \in DOMAIN r },
              !.last = NoProbe]

\* mutant: wg.Wait() does not wait for the probes
WaitReturns_Early(h) == TRUE

\* wg.Wait() returns once every probe of the generation has called wg.Done()
WaitReturns(h) == h.inflight = {}

\* mutant: Stop returns as soon as it has closed stopCh
StopReturns_NoWait(h) == h.stopCh

\* <-hm.stopped
StopReturns(h) == h.stopped

\* go func() { app.HealthMonitor.Start(app.ctx) }(): the initial checkAllServers
HmStart ==
    /\ hm.loop = "notStarted"
    /\ hm' = checkAllServers(hm, servers)
    /\ UNCHANGED <<now, cacheVars, breakerVars, registryVars, healthMap, routerVars,
                   lk, fetched, pg, rrs, pr>>

\* one probe returns: checkServerHealth calls updateHealthStatus, then wg.Done()
HmProbeReturn(name, g, ok) ==
    /\ <<name, g>> \in hm.inflight
    /\ healthMap' = updateHealthStatus(healthMap, name, ok)
    /\ hm' = [hm EXCEPT !.inflight = @ \ { <<name, g>> },
                        !.last = [name |-> name, ok |-> ok],
                        !.streak[name] = IF ok THEN 0 ELSE @ + 1,
                        !.succeeded = IF ok THEN @ \cup {name} ELSE @]
    /\ UNCHANGED <<now, cacheVars, breakerVars, registryVars, routerVars, lk, fetched, pg, rrs, pr>>

\* checkAllServers returns and the loop reaches its select
HmCheckDone ==
    /\ hm.loop = "checking"
    /\ WaitReturns(hm)
    /\ hm' = [hm EXCEPT !.loop = "waiting", !.last = NoProbe]
    /\ UNCHANGED <<now, cacheVars, breakerVars, registryVars, healthMap, routerVars,
                   lk, fetched, pg, rrs, pr>>

\* case <-ticker.C: the select takes any ready case, so also after a stop request
HmTick ==
    /\ hm.loop = "waiting"
    /\ hm.gen < MaxTicks
    /\ hm' = checkAllServers(hm, servers)
    /\ UNCHANGED <<now, cacheVars, breakerVars, registryVars, healthMap, routerVars,
                   lk, fetched, pg, rrs, pr>>

\* case <-hm.stopCh / case <-ctx.Done(): return, and the deferred close(hm.stopped)
HmLoopExit ==
    /\ hm.loop = "waiting"
    /\ hm.stopCh \/ hm.ctxDone
    /\ hm' = [hm EXCEPT !.loop = "exited", !.stopped = TRUE, !.last = NoProbe]
    /\ UNCHANGED <<now, cacheVars, breakerVars, registryVars, healthMap, routerVars,
                   lk, fetched, pg, rrs, pr>>

\* Application.Shutdown: app.cancelFunc()
HmCancel ==
    /\ hm.stop = "none"
    /\ ~hm.ctxDone
    /\ hm' = [hm EXCEPT !.ctxDone = TRUE, !.last = NoProbe]
    /\ UNCHANGED <<now, cacheVars, breakerVars, registryVars, healthMap, routerVars,
                   lk, fetched, pg, rrs, pr>>

\* HealthMonitor.Stop: close(hm.stopCh), called by Shutdown or directly
HmStopCall ==
    /\ hm.stop = "none"
    /\ hm' = [hm EXCEPT !.stopCh = TRUE, !.stop = "called", !.last = NoProbe]
    /\ UNCHANGED <<now, cacheVars, breakerVars, registryVars, healthMap, routerVars,
                   lk, fetched, pg, rrs, pr>>

\* HealthMonitor.Stop: <-hm.stopped, and the return
HmStopReturn ==
    /\ hm.stop = "called"
    /\ StopReturns(hm)
    /\ hm' = [hm EXCEPT !.stop = "returned", !.last = NoProbe]
    /\ UNCHANGED <<now, cacheVars, breakerVars, registryVars, healthMap, routerVars,
                   lk, fetched, pg, rrs, pr>>

\* HealthMonitor.IsHealthy(name), as the router calls it
HmIsHealthy(name) ==
    /\ hm' = [hm EXCEPT !.ret = [name |-> name, value |-> IsHealthy(healthMap, name),
                                 known |-> name \in DOMAIN healthMap,
                                 proven |-> name \in hm.succeeded],
                        !.last = NoProbe]
    /\ UNCHANGED <<now, cacheVars, breakerVars, registryVars, healthMap, routerVars,
                   lk, fetched, pg, rrs, pr>>

\* HealthMonitor.RemoveServer(name)
HmRemoveServer(name) ==
    /\ healthMap' = RemoveServer(healthMap, name)
    /\ hm' = [hm EXCEPT !.succeeded = @ \ {name}, !.last = NoProbe]
    /\ UNCHANGED <<now, cacheVars, breakerVars, registryVars, routerVars, lk, fetched, pg, rrs, pr>>

----------------------------------------------------------------------------
(* Concurrent ResolveBackend calls at step 3, the round-robin selection: each     *)
(* goroutine of RrThreads arrives with the prefix it matched and the              *)
(* healthyServers it collected, and takes rr.mu around the read and the increment *)
(* of the counter of its prefix.                                                  *)

RrThreads == {1, 2}
RrPrefixes == {PrefixA, PrefixAB}

\* len(healthyServers) of one call
RrSizes == 0..2

\* a goroutine that is not in ResolveBackend; value and index are what its
\* selection read and computed, err is that of its last failed call
NoSelection ==
    [pc |-> "idle", prefix |-> << >>, size |-> 0, value |-> 0, index |-> 0, err |-> ""]

\* rr.mu free (0), nobody in ResolveBackend, no counter value read yet
NewSelectionState ==
    [mu |-> 0,
     th |-> [t \in RrThreads |-> NoSelection],
     used |-> [p \in RrPrefixes |-> << >>]]

RrIdle == rrs = NewSelectionState

\* mutant: the counter is read and incremented without rr.mu
MuFree_NoMutex(holder) == TRUE

\* rr.mu.Lock() returns when no goroutine holds rr.mu
MuFree(holder) == holder = 0

\* steps 1 and 2 of ResolveBackend have found prefix and size eligible servers
RrFiltered(t, prefix, size) ==
    /\ rrs.th[t].pc = "idle"
    /\ Len(rrs.used[prefix]) < MaxRR
    /\ rrs' = [rrs EXCEPT !.th[t] =
                  [NoSelection EXCEPT !.pc = "filtered", !.prefix = prefix,
                                      !.size = size]]
    /\ UNCHANGED <<now, cacheVars, breakerVars, registryVars, healthMap, routerVars,
                   hm, lk, fetched, pg, pr>>

\* if len(healthyServers) == 0: return nil, fmt.Errorf("no_healthy_backends")
RrNoHealthy(t) ==
    /\ rrs.th[t].pc = "filtered"
    /\ rrs.th[t].size = 0
    /\ rrs' = [rrs EXCEPT !.th[t] = [NoSelection EXCEPT !.err = "no_healthy_backends"]]
    /\ UNCHANGED <<now, cacheVars, breakerVars, registryVars, healthMap, routerVars,
                   hm, lk, fetched, pg, pr>>

\* rr.mu.Lock()
RrLock(t) ==
    /\ rrs.th[t].pc = "filtered"
    /\ rrs.th[t].size > 0
    /\ MuFree(rrs.mu)
    /\ rrs' = [rrs EXCEPT !.mu = t, !.th[t].pc = "locked"]
    /\ UNCHANGED <<now, cacheVars, breakerVars, registryVars, healthMap, routerVars,
                   hm, lk, fetched, pg, pr>>

\* index := rr.roundRobinIndex[prefix] % len(healthyServers)
RrRead(t) ==
    /\ rrs.th[t].pc = "locked"
    /\ LET prefix == rrs.th[t].prefix
           value == RoundRobinAt(roundRobinIndex, prefix)
           index == value % rrs.th[t].size
       IN  rrs' = [rrs EXCEPT
                      !.th[t].pc = "read", !.th[t].value = value, !.th[t].index = index,
                      !.used[prefix] =
                          Append(@, [value |-> value, size |-> rrs.th[t].size,
                                     index |-> index])]
    /\ UNCHANGED <<now, cacheVars, breakerVars, registryVars, healthMap, routerVars,
                   hm, lk, fetched, pg, pr>>

\* rr.roundRobinIndex[prefix]++
RrIncrement(t) ==
    /\ rrs.th[t].pc = "read"
    /\ roundRobinIndex' = RoundRobinInc(roundRobinIndex, rrs.th[t].prefix)
    /\ rrs' = [rrs EXCEPT !.th[t].pc = "incremented"]
    /\ UNCHANGED <<now, cacheVars, breakerVars, registryVars, healthMap, req, picks,
                   hm, lk, fetched, pg, pr>>

\* rr.mu.Unlock() and chosen := healthyServers[index]
RrUnlock(t) ==
    /\ rrs.th[t].pc = "incremented"
    /\ rrs' = [rrs EXCEPT !.mu = IF @ = t THEN 0 ELSE @,
                          !.th[t] = NoSelection]
    /\ UNCHANGED <<now, cacheVars, breakerVars, registryVars, healthMap, routerVars,
                   hm, lk, fetched, pg, pr>>

----------------------------------------------------------------------------
(* One request forwarded by a handler (handlers.go): the call of performRequest   *)
(* with the target URL of the resolved backend, the iterations of its retry loop  *)
(* one by one, and the handler's report to the breaker.                           *)

\* request paths as r.URL.Path holds them, decoded: "/a/x" and "/a/%", the latter
\* requested as /a/%25
PrPaths == { <<"/", "a", "/", "x">>, <<"/", "a", "/", "%">> }

\* r.URL.RawQuery: none, or "q"
PrQueries == { << >>, <<"q">> }

\* originalReq.Header: no header, or one
PrHeaders == { << >>, <<"k">> }

\* what one app.Client.Do meets: a transport error (0) or a response with one of
\* these status codes
PrOutcomes == { 0, 200, 500, 504, 505 }

\* the backend ResolveBackend returned
PrServer == NewServer("s1", <<PrefixA>>)

\* backoffTimes := []time.Duration{100 ms, 500 ms, 2 s}, in milliseconds
backoffTimes == <<100, 500, 2000>>

HexDigits ==
    { "0", "1", "2", "3", "4", "5", "6", "7", "8", "9",
      "a", "b", "c", "d", "e", "f", "A", "B", "C", "D", "E", "F" }

\* http.NewRequest parses url: a "%" that does not begin an escape of two hexadecimal
\* digits is an error
createErr(method, url) ==
    \E i \in 1..Len(url) :
        /\ url[i] = "%"
        /\ ~(i + 2 <= Len(url) /\ url[i + 1] \in HexDigits /\ url[i + 2] \in HexDigits)

\* the body argument of performRequest: nil, or a byte slice
NilBody == [nil |-> TRUE, bytes |-> << >>]
BodyOf(bytes) == [nil |-> FALSE, bytes |-> bytes]
PrBodies == { NilBody } \cup { BodyOf(b) : b \in CacheValues }

\* if body != nil { reqBody = bytes.NewReader(body) }: what the attempt sends
reqBody(body, attempt) == IF body.nil THEN NilBody ELSE body

\* http.NewRequest(method, url, reqBody) with the headers of originalReq added
NewRequest(method, url, header, body) ==
    [method |-> method, url |-> url, header |-> header, body |-> body]

\* resp and err before the first attempt, both nil
NoReturn == [err |-> FALSE, status |-> 0, attempts |-> 0]

\* if resp.StatusCode >= 500 && resp.StatusCode <= 504
Retryable(status) == status >= 500 /\ status <= 504

\* mutant: a transport error on the last attempt is returned with the response of
\* the attempt before
doAttempt_StaleResp(o, attempt, prev) ==
    IF o = 0
    THEN IF attempt < maxRetries
         THEN [continue |-> TRUE, ret |-> [err |-> TRUE, status |-> prev.status, attempts |-> attempt]]
         ELSE [continue |-> FALSE,
               ret |-> [err |-> TRUE, status |-> prev.status, attempts |-> attempt]]
    ELSE IF Retryable(o) /\ attempt < maxRetries
         THEN [continue |-> TRUE, ret |-> [err |-> FALSE, status |-> o, attempts |-> attempt]]
         ELSE [continue |-> FALSE,
               ret |-> [err |-> FALSE, status |-> o, attempts |-> attempt]]

\* resp, err = app.Client.Do(req) meeting o, and what the loop does with it: sleep
\* and continue, return nil, err, or break to return resp, err.  prev is resp, err
\* of the iteration before.
doAttempt(o, attempt, prev) ==
    IF o = 0
    THEN IF attempt < maxRetries
         THEN [continue |-> TRUE, ret |-> [err |-> TRUE, status |-> 0, attempts |-> attempt]]
         ELSE [continue |-> FALSE,
               ret |-> [err |-> TRUE, status |-> 0, attempts |-> attempt]]
    ELSE IF Retryable(o) /\ attempt < maxRetries
         THEN [continue |-> TRUE, ret |-> [err |-> FALSE, status |-> o, attempts |-> attempt]]
         ELSE [continue |-> FALSE,
               ret |-> [err |-> FALSE, status |-> o, attempts |-> attempt]]

\* no request being forwarded.  History: sent are the requests handed to
\* app.Client.Do, seen what each met, slept the delays of time.Sleep, report the
\* handler's call on the breaker
NoCall ==
    [pc |-> "idle", method |-> "", path |-> << >>, query |-> << >>, header |-> << >>,
     prefix |-> << >>, url |-> << >>, body |-> NilBody, attempt |-> 0, ret |-> NoReturn,
     sent |-> << >>, seen |-> << >>, slept |-> << >>, report |-> ""]

PrIdle == pr = NoCall

\* the handler, ResolveBackend having matched prefix and chosen PrServer, calls
\* app.performRequest(method, backend.TargetURL, r, body)
PrForward(method, path, query, header, prefix, body) ==
    /\ pr.pc = "idle"
    /\ HasPrefix(path, prefix)
    /\ (method = "GET") = body.nil
    /\ pr' = [NoCall EXCEPT
                 !.pc = "loop", !.method = method, !.path = path, !.query = query,
                 !.header = header, !.prefix = prefix,
                 !.url = TargetURL(PrServer, path, prefix), !.body = body,
                 !.attempt = 1]
    /\ UNCHANGED <<now, cacheVars, breakerVars, registryVars, healthMap, routerVars,
                   hm, lk, fetched, pg, rrs>>

\* one iteration of the loop of performRequest: the request is built and sent, and
\* the loop ends or sleeps and goes on
PrAttempt(o) ==
    /\ pr.pc = "loop"
    /\ IF createErr(pr.method, pr.url)
       THEN pr' = [pr EXCEPT !.pc = "returned",
                             !.ret = [err |-> TRUE, status |-> 0, attempts |-> 0]]
       ELSE LET request == NewRequest(pr.method, pr.url, pr.header,
                                      reqBody(pr.body, pr.attempt))
                r == doAttempt(o, pr.attempt, pr.ret)
            IN  pr' = [pr EXCEPT
                          !.pc = IF r.continue THEN "loop" ELSE "returned",
                          !.attempt = IF r.continue THEN @ + 1 ELSE @,
                          !.ret = r.ret,
                          !.sent = Append(@, request),
                          !.seen = Append(@, o),
                          !.slept = IF r.continue
                                    THEN Append(@, backoffTimes[pr.attempt]) ELSE @]
    /\ UNCHANGED <<now, cacheVars, breakerVars, registryVars, healthMap, routerVars,
                   hm, lk, fetched, pg, rrs>>

\* the handler after performRequest: OnFailure for an error or a 5xx response,
\* OnSuccess otherwise
PrReport ==
    /\ pr.pc = "returned"
    /\ pr' = [pr EXCEPT !.pc = "idle",
                        !.report = IF ReportsFailure(pr.ret)
                                   THEN "OnFailure" ELSE "OnSuccess"]
    /\ UNCHANGED <<now, cacheVars, breakerVars, registryVars, healthMap, routerVars,
                   hm, lk, fetched, pg, rrs>>

LocksIdle == lk = NewLockState

\* no GET has fetched a 200 response yet
NoFetch == [ok |-> FALSE, path |-> << >>, body |-> << >>, at |-> 0]

FetchedIdle == fetched = NoFetch

SideIdle ==
    /\ MonitorIdle
    /\ LocksIdle
    /\ FetchedIdle
    /\ PgIdle
    /\ RrIdle
    /\ PrIdle

----------------------------------------------------------------------------
(* Actions of the cache *)

\* op, key and result of the last call, with what it logged: the miss/hit reason of
\* Get and the keys removed by the call (evicted by Store, expired in the sweep).
\* History: before is the recency list a sweep started from; prior is the deadline
\* an overwriting Store replaced (-1: none), kept by the Get calls of the same key
\* that follow it.
NoCacheRet ==
    [op |-> "none", key |-> << >>, found |-> FALSE, value |-> << >>,
     reason |-> "", removed |-> {}, before |-> << >>, prior |-> -1]

\* the deadline replaced by the Store that the call for key follows
PriorOfGet(ret, key) ==
    IF ret.key = key /\ ret.op \in {"Store", "Get"} THEN ret.prior ELSE -1

\* the deadline a Store of key replaces in cache c
PriorOfStore(c, key) ==
    IF key \in DOMAIN c.items THEN c.items[key].expiresAt ELSE -1

CacheGet(key) ==
    LET r == Get(rc, key, now)
    IN  /\ rc' = r.cache
        /\ cacheRet' = [op |-> "Get", key |-> key, found |-> r.found, value |-> r.value,
                        reason |-> r.reason,
                        removed |-> DOMAIN rc.items \ DOMAIN r.cache.items,
                        before |-> << >>, prior |-> PriorOfGet(cacheRet, key)]
        /\ recency' = IF r.found
                      THEN Touch(recency, key, DOMAIN r.cache.items)
                      ELSE SelectKeys(recency, DOMAIN r.cache.items)
        /\ UNCHANGED <<sideVars, now, notCache>>

CacheStore(key, value) ==
    LET c == Store(rc, key, value, now)
    IN  /\ rc' = c
        /\ cacheRet' = [op |-> "Store", key |-> key, found |-> FALSE, value |-> value,
                        reason |-> IF key \in DOMAIN rc.items THEN "update" ELSE "store",
                        removed |-> (DOMAIN rc.items \cup {key}) \ DOMAIN c.items,
                        before |-> << >>, prior |-> PriorOfStore(rc, key)]
        /\ recency' = Touch(recency, key, DOMAIN c.items)
        /\ UNCHANGED <<sideVars, now, notCache>>

\* one tick of the Cleanup goroutine
CacheSweep ==
    LET c == cleanupExpired(rc, now)
    IN  /\ rc' = c
        /\ cacheRet' = [NoCacheRet EXCEPT !.op = "Sweep",
                                         !.removed = DOMAIN rc.items \ DOMAIN c.items,
                                         !.before = ListFromHead(rc)]
        /\ recency' = SelectKeys(recency, DOMAIN c.items)
        /\ UNCHANGED <<sideVars, now, notCache>>

Tick ==
    /\ now + ClockStep <= MaxTime
    /\ now' = now + ClockStep
    /\ UNCHANGED <<sideVars, cacheVars, breakerVars, registryVars, healthMap, routerVars>>

\* the clock advances by a whole breaker cooldown
TickCooldown ==
    /\ now + OpenCooldown <= MaxTime
    /\ now' = now + OpenCooldown
    /\ UNCHANGED <<sideVars, cacheVars, breakerVars, registryVars, healthMap, routerVars>>

InitCache ==
    /\ now = 0
    /\ \E m \in MaxBytesChoices : rc = NewResponseCache(CacheTTL, m)
    /\ cacheRet = NoCacheRet
    /\ recency = << >>
    /\ BreakerIdle
    /\ RegistryIdle
    /\ HealthIdle
    /\ RouterIdle
    /\ SideIdle

NextCache ==
    \/ \E k \in CacheKeys : CacheGet(k)
    \/ \E k \in CacheKeys, v \in CacheValues : CacheStore(k, v)
    \/ CacheSweep
    \/ Tick

SpecCache == InitCache /\ [][NextCache]_vars

CacheIdle ==
    /\ rc = NewResponseCache(CacheTTL, 0)
    /\ cacheRet = NoCacheRet
    /\ recency = << >>

InitBreaker ==
    /\ now = 0
    /\ CacheIdle
    /\ BreakerIdle
    /\ RegistryIdle
    /\ HealthIdle
    /\ RouterIdle
    /\ SideIdle

NextBreaker ==
    \/ \E n \in BreakerNames : CbAllowRequest(n)
    \/ \E n \in BreakerNames : CbOnSuccess(n)
    \/ \E n \in BreakerNames : CbOnFailure(n)
    \/ \E n \in BreakerNames : CbOnRequestComplete(n)
    \/ \E n \in BreakerNames : CbResetBreaker(n)
    \/ \E n \in BreakerNames : CbRemoveBreaker(n)
    \/ Tick

SpecBreaker == InitBreaker /\ [][NextBreaker]_vars

InitRegistry ==
    /\ now = 0
    /\ CacheIdle
    /\ BreakerIdle
    /\ RegistryIdle
    /\ HealthIdle
    /\ RouterIdle
    /\ SideIdle

NextRegistry ==
    \/ \E n \in Names, pl \in PrefixLists : RegRegister(NewServer(n, pl))
    \/ \E n \in Names : RegDeregister(n)
    \/ \E p \in Paths : RegServersForPath(p)

SpecRegistry == InitRegistry /\ [][NextRegistry]_vars

\* the in-memory registry and the PostgreSQL-backed registry, both empty, taking
\* the same calls
NextRegistries ==
    \/ \E n \in BreakerNames, pl \in BothPrefixLists : BothRegister(NewServer(n, pl))
    \/ \E n \in BreakerNames : BothDeregister(n)
    \/ BothGetServers
    \/ \E n \in BreakerNames : BothGetServer(n)
    \/ \E p \in BothPaths : BothServersForPath(p)

SpecRegistries == InitRegistry /\ [][NextRegistries]_vars

\* the router over a registry whose backends have registered, all breakers new or
\* s1 just opened by FailuresToOpen failed requests
InitRouter ==
    /\ now = 0
    /\ CacheIdle
    /\ \E opened \in BOOLEAN :
          /\ breakers = IF opened
                        THEN FailTimes(NewCircuitBreakerManager, "s1", FailuresToOpen, 0)
                        ELSE NewCircuitBreakerManager
          /\ failRun = [n \in Names |->
                           IF opened /\ n = "s1"
                           THEN [n |-> FailuresToOpen, since |-> 0] ELSE NoFailRun]
    /\ cbRet = NoCbRet
    /\ probes = [n \in Names |-> 0]
    /\ \E reg \in RouterRegistries :
          servers = [n \in DOMAIN reg |-> NewServer(n, reg[n])]
    /\ regRet = NoRegRet
    /\ HealthIdle
    /\ RouterIdle
    /\ SideIdle

NextRouter ==
    \/ \E t \in RouterThreads, p \in RouterPaths : RtPost(t, p)
    \/ \E t \in RouterThreads : RtResolve(t)
    \/ \E t \in RouterThreads : RtIsHealthy(t)
    \/ \E t \in RouterThreads : RtAllowRequest(t)
    \/ \E t \in RouterThreads : RtSelect(t)
    \/ \E t \in RouterThreads : RtReadBodyError(t)
    \/ \E t \in RouterThreads, o \in AttemptOutcomes : RtReport(t, o)
    \/ \E t \in RouterThreads : RtComplete(t)
    \/ \E n \in Names, ok \in BOOLEAN : HmUpdate(n, ok)
    \/ TickCooldown

SpecRouter == InitRouter /\ [][NextRouter]_vars

\* the router after the breaker of s1 has opened: s1 and s2 both serve "/a" and
\* both are probed healthy, and stay so
InitRecovery ==
    /\ now = 0
    /\ CacheIdle
    /\ breakers = FailTimes(NewCircuitBreakerManager, "s1", FailuresToOpen, 0)
    /\ failRun = [n \in Names |->
                     IF n = "s1" THEN [n |-> FailuresToOpen, since |-> 0] ELSE NoFailRun]
    /\ cbRet = NoCbRet
    /\ probes = [n \in Names |-> 0]
    /\ servers = [n \in {"s1", "s2"} |-> NewServer(n, <<PrefixA>>)]
    /\ regRet = NoRegRet
    /\ healthMap = updateHealthStatus(updateHealthStatus(NewHealthMonitor, "s1", TRUE),
                                      "s2", TRUE)
    /\ RouterIdle
    /\ SideIdle

NextRecovery ==
    \/ \E t \in RouterThreads, p \in RouterPaths : RtPost(t, p)
    \/ \E t \in RouterThreads : RtResolve(t)
    \/ \E t \in RouterThreads : RtIsHealthy(t)
    \/ \E t \in RouterThreads : RtAllowRequest(t)
    \/ \E t \in RouterThreads : RtSelect(t)
    \/ \E t \in RouterThreads : RtReadBodyError(t)
    \/ \E t \in RouterThreads, o \in AttemptOutcomes : RtReport(t, o)
    \/ \E t \in RouterThreads : RtComplete(t)
    \/ TickCooldown

SpecRecovery == InitRecovery /\ [][NextRecovery]_vars

\* the health monitor over a registry whose backends have registered
InitHealth ==
    /\ now = 0
    /\ CacheIdle
    /\ BreakerIdle
    /\ \E reg \in RouterRegistries :
          servers = [n \in DOMAIN reg |-> NewServer(n, reg[n])]
    /\ regRet = NoRegRet
    /\ HealthIdle
    /\ RouterIdle
    /\ SideIdle

NextHealth ==
    \/ HmStart
    \/ \E n \in Names, g \in 1..MaxTicks, ok \in BOOLEAN : HmProbeReturn(n, g, ok)
    \/ HmCheckDone
    \/ HmTick
    \/ HmLoopExit
    \/ HmCancel
    \/ HmStopCall
    \/ HmStopReturn
    \/ \E n \in Names : HmIsHealthy(n)
    \/ \E n \in Names : HmRemoveServer(n)

SpecHealth == InitHealth /\ [][NextHealth]_vars

InitLocks ==
    /\ now = 0
    /\ CacheIdle
    /\ BreakerIdle
    /\ RegistryIdle
    /\ HealthIdle
    /\ RouterIdle
    /\ SideIdle

NextLocks ==
    \/ \E u \in Units : LkLock(u)
    \/ \E u \in Units : LkUnlock(u)
    \/ \E u \in Units : LkReturn(u)

SpecLocks == InitLocks /\ [][NextLocks]_vars

\* two goroutines in ResolveBackend at the same time
InitRoundRobin ==
    /\ now = 0
    /\ CacheIdle
    /\ BreakerIdle
    /\ RegistryIdle
    /\ HealthIdle
    /\ RouterIdle
    /\ SideIdle

NextRoundRobin ==
    \/ \E t \in RrThreads, p \in RrPrefixes, n \in RrSizes : RrFiltered(t, p, n)
    \/ \E t \in RrThreads : RrNoHealthy(t)
    \/ \E t \in RrThreads : RrLock(t)
    \/ \E t \in RrThreads : RrRead(t)
    \/ \E t \in RrThreads : RrIncrement(t)
    \/ \E t \in RrThreads : RrUnlock(t)

SpecRoundRobin == InitRoundRobin /\ [][NextRoundRobin]_vars

\* one request at a time forwarded to the backend "s1" of prefix "/a"
InitRetry ==
    /\ now = 0
    /\ CacheIdle
    /\ BreakerIdle
    /\ RegistryIdle
    /\ HealthIdle
    /\ RouterIdle
    /\ SideIdle

NextRetry ==
    \/ \E method \in {"GET", "POST"}, path \in PrPaths, query \in PrQueries,
          header \in PrHeaders, body \in PrBodies :
          PrForward(method, path, query, header, PrefixA, body)
    \/ \E o \in PrOutcomes : PrAttempt(o)
    \/ PrReport

SpecRetry == InitRetry /\ [][NextRetry]_vars

----------------------------------------------------------------------------
(* HandleGetRequest (handlers.go): the cache lookup before ResolveBackend and the *)
(* Store after a 200 response.                                                    *)

\* mutant: no response is cached
ShouldStore_Never(status) == FALSE

\* if resp.StatusCode == http.StatusOK
ShouldStore(status) == status = 200

\* a GET request for path reaches HandleGetRequest: app.Cache.Get(path), and the
\* cached response on a hit
HdGet(t, path) ==
    /\ req[t].pc = "idle"
    /\ \A p \in DOMAIN roundRobinIndex : roundRobinIndex[p] < MaxRR
    /\ LET r == Get(rc, path, now)
       IN  /\ rc' = r.cache
           /\ cacheRet' = [op |-> "Get", key |-> path, found |-> r.found,
                           value |-> r.value, reason |-> r.reason,
                           removed |-> DOMAIN rc.items \ DOMAIN r.cache.items,
                           before |-> << >>, prior |-> PriorOfGet(cacheRet, path)]
           /\ recency' = IF r.found
                         THEN Touch(recency, path, DOMAIN r.cache.items)
                         ELSE SelectKeys(recency, DOMAIN r.cache.items)
           /\ req' = [req EXCEPT ![t] =
                         IF r.found
                         THEN [IdleReq(NoResult) EXCEPT
                                  !.response = [from |-> "cache", path |-> path,
                                                status |-> 200, body |-> r.value]]
                         ELSE [IdleReq(NoResult) EXCEPT
                                  !.pc = "route", !.method = "GET", !.path = path]]
    /\ UNCHANGED <<now, breakerVars, registryVars, healthMap, roundRobinIndex, picks,
                   sideVars>>

\* io.ReadAll(resp.Body), the response to the client and app.Cache.Store(path,
\* bodyBytes) for a 200
HdBody(t, readOK, bodyBytes) ==
    /\ req[t].pc = "body"
    /\ LET path == req[t].path
           stored == readOK /\ ShouldStore(req[t].status)
           c == IF stored THEN Store(rc, path, bodyBytes, now) ELSE rc
       IN  /\ rc' = c
           /\ cacheRet' = IF stored
                          THEN [op |-> "Store", key |-> path, found |-> FALSE,
                                value |-> bodyBytes,
                                reason |-> IF path \in DOMAIN rc.items
                                           THEN "update" ELSE "store",
                                removed |-> (DOMAIN rc.items \cup {path}) \ DOMAIN c.items,
                                before |-> << >>, prior |-> PriorOfStore(rc, path)]
                          ELSE cacheRet
           /\ recency' = IF stored THEN Touch(recency, path, DOMAIN c.items) ELSE recency
           /\ fetched' = IF readOK /\ req[t].status = 200
                         THEN [ok |-> TRUE, path |-> path, body |-> bodyBytes, at |-> now]
                         ELSE fetched
           /\ req' = [req EXCEPT ![t] =
                         [IdleReq(req[t].result) EXCEPT
                            !.response =
                               IF readOK
                               THEN [from |-> "backend", path |-> path,
                                     status |-> req[t].status, body |-> bodyBytes]
                               ELSE [NoResponse EXCEPT !.from = "error", !.status = 500]]]
    /\ UNCHANGED <<now, breakerVars, registryVars, healthMap, roundRobinIndex, picks,
                   hm, lk, pg, rrs, pr>>

\* the proxy serving GET and POST requests with its cache, both backends of "/a"
\* probed healthy
InitProxy ==
    /\ now = 0
    /\ rc = NewResponseCache(CacheTTL, ProxyMaxBytes)
    /\ cacheRet = NoCacheRet
    /\ recency = << >>
    /\ BreakerIdle
    /\ servers = [n \in {"s1", "s2"} |-> NewServer(n, <<PrefixA>>)]
    /\ regRet = NoRegRet
    /\ healthMap = updateHealthStatus(updateHealthStatus(NewHealthMonitor, "s1", TRUE),
                                      "s2", TRUE)
    /\ RouterIdle
    /\ SideIdle

NextProxy ==
    \/ \E t \in RouterThreads, p \in RouterPaths : HdGet(t, p)
    \/ \E t \in RouterThreads, p \in RouterPaths : RtPost(t, p)
    \/ \E t \in RouterThreads : RtReadBodyError(t)
    \/ \E t \in RouterThreads : RtResolve(t)
    \/ \E t \in RouterThreads : RtIsHealthy(t)
    \/ \E t \in RouterThreads : RtAllowRequest(t)
    \/ \E t \in RouterThreads : RtSelect(t)
    \/ \E t \in RouterThreads, o \in ProxyOutcomes : RtReport(t, o)
    \/ \E t \in RouterThreads : RtComplete(t)
    \/ \E t \in RouterThreads, readOK \in BOOLEAN, b \in CacheValues : HdBody(t, readOK, b)
    \/ CacheSweep
    \/ Tick

SpecProxy == InitProxy /\ [][NextProxy]_vars

\* the proxy with its cache while backends deregister and register again: s1 and
\* s2 serve "/a" in both registries and are probed healthy, the breaker of s1 has
\* just opened
InitLifecycle ==
    /\ now = 0
    /\ rc = NewResponseCache(CacheTTL, ProxyMaxBytes)
    /\ cacheRet = NoCacheRet
    /\ recency = << >>
    /\ breakers = FailTimes(NewCircuitBreakerManager, "s1", FailuresToOpen, 0)
    /\ failRun = [n \in Names |->
                     IF n = "s1" THEN [n |-> FailuresToOpen, since |-> 0] ELSE NoFailRun]
    /\ cbRet = NoCbRet
    /\ probes = [n \in Names |-> 0]
    /\ servers = [n \in {"s1", "s2"} |-> NewServer(n, <<PrefixA>>)]
    /\ regRet = NoRegRet
    /\ healthMap = updateHealthStatus(updateHealthStatus(NewHealthMonitor, "s1", TRUE),
                                      "s2", TRUE)
    /\ RouterIdle
    /\ MonitorIdle
    /\ LocksIdle
    /\ FetchedIdle
    /\ pg = [services |-> PgRegister(PgRegister(NewPostgreSQLRegistry,
                                                NewServer("s1", <<PrefixA>>)).services,
                                     NewServer("s2", <<PrefixA>>)).services,
             ret |-> NoRegRet]
    /\ RrIdle
    /\ PrIdle

\* the backend answers 200 at once, or every attempt meets a transport error
LifecycleOutcomes == { [k \in 1..3 |-> 200], [k \in 1..3 |-> 0] }

NextLifecycle ==
    \/ \E n \in BreakerNames : BothRegister(NewServer(n, <<PrefixA>>))
    \/ \E n \in BreakerNames : BothDeregister(n)
    \/ \E ok \in BOOLEAN : HmUpdate("s1", ok)
    \/ \E t \in RouterThreads : HdGet(t, <<"/", "a", "/", "x">>)
    \/ \E t \in RouterThreads : RtResolve(t)
    \/ \E t \in RouterThreads : RtIsHealthy(t)
    \/ \E t \in RouterThreads : RtAllowRequest(t)
    \/ \E t \in RouterThreads : RtSelect(t)
    \/ \E t \in RouterThreads, o \in LifecycleOutcomes : RtReport(t, o)
    \/ \E t \in RouterThreads : RtComplete(t)
    \/ \E t \in RouterThreads : HdBody(t, TRUE, <<1>>)
    \/ TickCooldown

SpecLifecycle == InitLifecycle /\ [][NextLifecycle]_vars

----------------------------------------------------------------------------
(* Observations of the cache used by the properties *)

RECURSIVE SumSizes(_, _)
SumSizes(items, S) ==
    IF S = {} THEN 0
    ELSE LET k == CHOOSE x \in S : TRUE
         IN  items[k].sizeBytes + SumSizes(items, S \ {k})

\* the keys met walking the prev links from node k, at most n of them
RECURSIVE WalkPrev(_, _, _)
WalkPrev(c, k, n) ==
    IF k = NIL \/ n = 0 \/ k \notin DOMAIN c.items THEN << >>
    ELSE <<k>> \o WalkPrev(c, c.items[k].prev, n - 1)

\* the recency list from tail to head
ListFromTail(c) == WalkPrev(c, c.tail, Cardinality(DOMAIN c.items) + 1)

Reverse(sq) == [i \in 1..Len(sq) |-> sq[Len(sq) + 1 - i]]

\* the byte cost of the first n keys of order, key k costing size and the others
\* what the cache c holds for them
RECURSIVE CostOfFirst(_, _, _, _, _)
CostOfFirst(c, order, n, k, size) ==
    IF n = 0 THEN 0
    ELSE (IF order[n] = k THEN size ELSE c.items[order[n]].sizeBytes)
         + CostOfFirst(c, order, n - 1, k, size)

----------------------------------------------------------------------------
(* Properties of the cache, checked under SpecCache *)

\* C1: in every reachable state the tracked usedBytes counter equals the sum of
\* sizeBytes over the entries currently in the cache.
C1_UsedBytesIsSumOfSizes ==
    rc.usedBytes = SumSizes(rc.items, DOMAIN rc.items)

\* an expired Get has just removed one entry and two entries of different size remain
C1_Witness ==
    /\ cacheRet.op = "Get" /\ cacheRet.reason = "expired"
    /\ Cardinality(DOMAIN rc.items) = 2
    /\ rc.usedBytes = 67 + 68

\* C2: immediately after any Store returns, usedBytes <= maxBytes, also for an entry
\* whose own cost exceeds maxBytes.
C2_StoreStaysWithinBudget ==
    cacheRet.op = "Store" => rc.usedBytes <= rc.maxBytes

\* a Store of an entry larger than the whole budget has evicted an older entry and itself
C2_Witness ==
    /\ cacheRet.op = "Store"
    /\ approximateSize(cacheRet.key, cacheRet.value) > rc.maxBytes
    /\ Cardinality(cacheRet.removed) = 2
    /\ rc.usedBytes = 0

\* C3: the entries a Store evicts are exactly the least recently accessed ones
\* (access = Store or Get hit): in the order of last access, with the stored key
\* newest, the evicted keys form the oldest end, and a key is evicted only if it
\* and all newer entries together exceed the budget.
C3_StoreEvictsLeastRecentlyUsed ==
    [][\A k \in CacheKeys, v \in CacheValues :
        CacheStore(k, v) =>
            LET order == <<k>> \o Without(recency, k)
                gone == { x \in Range(order) : x \notin DOMAIN rc'.items }
            IN  /\ \A i, j \in 1..Len(order) :
                      (i < j /\ order[i] \in gone) => order[j] \in gone
                /\ \A i \in 1..Len(order) :
                      order[i] \in gone <=>
                          CostOfFirst(rc, order, i, k, approximateSize(k, v))
                              > rc.maxBytes]_vars

\* the end of Store(A), Store(B), Get(A), Store(C) under a budget of exactly two
\* equal-cost entries: C and A are cached, C newest, and storing C evicted B alone
C3_Witness ==
    /\ rc.maxBytes = 2 * 67
    /\ cacheRet.op = "Store" /\ cacheRet.key = <<"/", "c">>
    /\ cacheRet.removed = { <<"/", "b">> }
    /\ ListFromHead(rc) = << <<"/", "c">>, <<"/", "a">> >>
    /\ rc.usedBytes = rc.maxBytes

\* C4: a Get of an entry whose TTL deadline has passed returns a miss, removes the
\* entry from the index and from the recency list without promoting it (the other
\* entries keep their order) and subtracts its size from usedBytes, also when the
\* cache is within its budget.
C4_ExpiredGetMissesAndRemoves ==
    [][\A k \in CacheKeys :
        (CacheGet(k) /\ k \in DOMAIN rc.items /\ After(now, rc.items[k].expiresAt)) =>
            /\ cacheRet'.found = FALSE
            /\ k \notin DOMAIN rc'.items
            /\ ListFromHead(rc') = Without(ListFromHead(rc), k)
            /\ DOMAIN rc'.items = DOMAIN rc.items \ {k}
            /\ rc'.usedBytes = rc.usedBytes - rc.items[k].sizeBytes]_vars

\* an expired Get has removed an entry from a cache that is within its budget and
\* still holds two other entries
C4_Witness ==
    /\ cacheRet.op = "Get" /\ cacheRet.reason = "expired"
    /\ cacheRet.removed = {cacheRet.key}
    /\ Cardinality(DOMAIN rc.items) = 2
    /\ rc.usedBytes < rc.maxBytes

\* C24: in every reachable state the key set of the hash index equals the set of
\* nodes reachable from head through next links and the set reachable from tail
\* through prev links, each node met once (the walk from the tail is the walk from
\* the head reversed), and head and tail are both nil exactly when the index is
\* empty.
C24_IndexIsTheRecencyList ==
    LET keys == DOMAIN rc.items
        fwd == ListFromHead(rc)
        bwd == ListFromTail(rc)
    IN  /\ Range(fwd) = keys /\ Len(fwd) = Cardinality(keys)
        /\ Range(bwd) = keys /\ Len(bwd) = Cardinality(keys)
        /\ bwd = Reverse(fwd)
        /\ (rc.head = NIL) <=> (keys = {})
        /\ (rc.tail = NIL) <=> (keys = {})

\* a sweep has unlinked the middle node of a list of three and two entries remain
C24_Witness ==
    /\ cacheRet.op = "Sweep"
    /\ Len(cacheRet.before) = 3
    /\ cacheRet.removed = { cacheRet.before[2] }
    /\ ListFromHead(rc) = << cacheRet.before[1], cacheRet.before[3] >>
    /\ ListFromTail(rc) = << cacheRet.before[3], cacheRet.before[1] >>

\* C28: one run of the sweep removes every entry whose TTL deadline has passed,
\* wherever it sits in the recency list, and leaves every other entry in the cache
\* as it was (value, size, deadline), the survivors keeping their relative order.
C28_SweepRemovesExactlyTheExpired ==
    [][CacheSweep =>
        LET fresh == { k \in DOMAIN rc.items : ~After(now, rc.items[k].expiresAt) }
        IN  /\ DOMAIN rc'.items = fresh
            /\ ListFromHead(rc') = SelectKeys(ListFromHead(rc), fresh)
            /\ \A k \in fresh :
                  /\ rc'.items[k].value = rc.items[k].value
                  /\ rc'.items[k].sizeBytes = rc.items[k].sizeBytes
                  /\ rc'.items[k].expiresAt = rc.items[k].expiresAt]_vars

\* a sweep over a list of three has removed the expired entry at the head and the
\* expired entry at the tail and kept the entry between them, which has not expired
C28_Witness ==
    /\ cacheRet.op = "Sweep"
    /\ Len(cacheRet.before) = 3
    /\ cacheRet.removed = { cacheRet.before[1], cacheRet.before[3] }
    /\ ListFromHead(rc) = << cacheRet.before[2] >>
    /\ ~After(now, rc.items[cacheRet.before[2]].expiresAt)

\* C30: the recency list is always ordered by last access: walking from head to
\* tail visits exactly the live entries, most recently accessed (Store or Get hit)
\* first; and a Get hit or a Store moves only its own entry to the head, the other
\* entries that stay keeping their relative order.
C30_ListOrderedByLastAccess ==
    /\ [](ListFromHead(rc) = recency)
    /\ [][\A k \in CacheKeys :
            /\ (CacheGet(k) /\ cacheRet'.found) =>
                   ListFromHead(rc') = <<k>> \o Without(ListFromHead(rc), k)
            /\ \A v \in CacheValues :
                   CacheStore(k, v) =>
                       ListFromHead(rc') =
                           SelectKeys(<<k>> \o Without(ListFromHead(rc), k),
                                      DOMAIN rc'.items)]_vars

\* a Get hit has just promoted, over two entries stored after it, the entry with
\* the earliest deadline: the list order is the access order, not the store order
C30_Witness ==
    /\ cacheRet.op = "Get" /\ cacheRet.found
    /\ Len(recency) = 3
    /\ rc.head = cacheRet.key
    /\ \A k \in DOMAIN rc.items \ {rc.head} :
          rc.items[k].expiresAt > rc.items[rc.head].expiresAt

\* what Store(k, v) on a key already in the cache leaves behind: one entry for k,
\* at the head, with the new value, the recomputed size and the deadline now + TTL
Overwritten(k, v) ==
    /\ k \in DOMAIN rc'.items
    /\ Len(SelectSeq(ListFromHead(rc'), LAMBDA x : x = k)) = 1
    /\ rc'.head = k
    /\ rc'.items[k].value = v
    /\ rc'.items[k].sizeBytes = approximateSize(k, v)
    /\ rc'.items[k].expiresAt = now + rc.ttl

\* a Get of k that follows an overwriting Store of k, before the new deadline,
\* returns the value stored
GetAfterOverwrite(k) ==
    (/\ CacheGet(k)
     /\ cacheRet.op = "Store" /\ cacheRet.key = k /\ cacheRet.reason = "update"
     /\ k \in DOMAIN rc.items
     /\ ~After(now, rc.items[k].expiresAt)) =>
        /\ cacheRet'.found
        /\ cacheRet'.value = cacheRet.value

\* C29 as stated: Store(key, value) on a key already in the cache replaces the
\* value, recomputes the size, sets the expiry to now + TTL and moves the entry to
\* the head, keeping exactly one entry for the key; a Get of that key before the
\* new deadline returns the new value.
C29_StoreOverwrites ==
    [][\A k \in CacheKeys :
        /\ \A v \in CacheValues :
              (CacheStore(k, v) /\ k \in DOMAIN rc.items) => Overwritten(k, v)
        /\ GetAfterOverwrite(k)]_vars

\* C29, amended: the same, for a Store whose new entry, len(key) + len(value) + 64
\* bytes, does not exceed the byte budget of the cache on its own.
C29_FittingStoreOverwrites ==
    [][\A k \in CacheKeys :
        /\ \A v \in CacheValues :
              (/\ CacheStore(k, v)
               /\ k \in DOMAIN rc.items
               /\ approximateSize(k, v) <= rc.maxBytes) => Overwritten(k, v)
        /\ GetAfterOverwrite(k)]_vars

\* a Get has returned the two-byte value that a Store wrote over the entry of its
\* key, after the deadline of the entry replaced
C29_Witness ==
    /\ cacheRet.op = "Get" /\ cacheRet.found
    /\ cacheRet.value = <<2, 2>>
    /\ cacheRet.prior >= 0
    /\ After(now, cacheRet.prior)
    /\ rc.items[cacheRet.key].expiresAt > cacheRet.prior

----------------------------------------------------------------------------
(* Properties of the breaker table, checked under SpecBreaker *)

\* C5: for a breaker that was Closed with failure counter 0, after FailuresToOpen
\* OnFailure calls with no OnSuccess in between, every AllowRequest returns false
\* until OpenCooldown has elapsed since the breaker opened; the first AllowRequest
\* after the cooldown returns true and leaves the breaker HalfOpen.
C5_OpenDeniesUntilCooldown ==
    [][\A n \in Names :
        (CbAllowRequest(n) /\ failRun[n].n = FailuresToOpen) =>
            /\ cbRet'.allowed = (Since(now, failRun[n].since) >= OpenCooldown)
            /\ cbRet'.allowed => breakers'[n].State = "HalfOpen"
            /\ ~cbRet'.allowed => breakers'[n] = breakers[n]]_vars

\* the first AllowRequest after the cooldown of a breaker opened by exactly
\* FailuresToOpen failures has returned true and left it HalfOpen
C5_Witness ==
    \E n \in DOMAIN breakers :
        /\ cbRet = [op |-> "AllowRequest", name |-> n, allowed |-> TRUE]
        /\ breakers[n].State = "HalfOpen"
        /\ breakers[n].Failures = FailuresToOpen
        /\ Since(now, breakers[n].LastOpenTime) = OpenCooldown

\* C6: while a breaker is HalfOpen and one probe has been admitted (by any
\* AllowRequest that returned true since the breaker left Open, the call that made
\* the Open -> HalfOpen transition included) and is not yet completed, every further
\* AllowRequest for that backend returns false: at most one probe is outstanding.
C6_AtMostOneProbeOutstanding ==
    \A n \in Names : probes[n] <= 1

\* C7: a breaker's InFlight counter is never negative and is nonzero only while
\* its state is HalfOpen.
C7_InFlightOnlyInHalfOpen ==
    \A n \in DOMAIN breakers :
        /\ breakers[n].InFlight >= 0
        /\ breakers[n].InFlight # 0 => breakers[n].State = "HalfOpen"

\* one breaker is HalfOpen with a probe counted in InFlight while another one, whose
\* probe failed, is Open again with more than FailuresToOpen failures counted
C7_Witness ==
    \E n, m \in DOMAIN breakers :
        /\ breakers[n].State = "HalfOpen" /\ breakers[n].InFlight = 1
        /\ breakers[m].State = "Open" /\ breakers[m].Failures > FailuresToOpen
        /\ breakers[m].LastOpenTime >= OpenCooldown

\* the breaker of name n, a Closed one with no failures if the table has none yet
BreakerOf(b, n) == IF n \in DOMAIN b THEN b[n] ELSE NewBreaker

\* C25: AllowRequest on an Open breaker whose cooldown has elapsed moves the breaker
\* to HalfOpen, returns true and leaves InFlight = 1: the admitted call occupies
\* the single probe slot.
C25_TransitionCountsTheProbe ==
    [][\A n \in BreakerNames :
        (/\ CbAllowRequest(n)
         /\ BreakerOf(breakers, n).State = "Open"
         /\ Since(now, breakers[n].LastOpenTime) >= OpenCooldown) =>
            /\ breakers'[n].State = "HalfOpen"
            /\ cbRet'.allowed
            /\ breakers'[n].InFlight = 1]_vars

\* C26: in Closed state OnFailure adds one to the failure counter and opens the
\* breaker, recording the open timestamp, exactly when the counter reaches
\* FailuresToOpen, which is exactly when FailuresToOpen failures came in a row;
\* OnSuccess resets the counter to 0 and leaves the breaker Closed.
C26_ClosedCountsConsecutiveFailures ==
    [][\A n \in BreakerNames :
        /\ (CbOnFailure(n) /\ BreakerOf(breakers, n).State = "Closed") =>
              LET old == BreakerOf(breakers, n)
                  new == breakers'[n]
              IN  /\ new.Failures = old.Failures + 1
                  /\ new.Failures = failRun'[n].n
                  /\ (new.State = "Open") <=> (new.Failures = FailuresToOpen)
                  /\ (new.State = "Open") <=> (failRun'[n].n = FailuresToOpen)
                  /\ new.State \in {"Open", "Closed"}
                  /\ new.State = "Open" => new.LastOpenTime = now
                  /\ new.State = "Closed" => new.LastOpenTime = old.LastOpenTime
                  /\ new.InFlight = old.InFlight
        /\ (CbOnSuccess(n) /\ n \in DOMAIN breakers /\ breakers[n].State = "Closed") =>
              /\ breakers'[n] = [breakers[n] EXCEPT !.Failures = 0]
              /\ failRun'[n].n = 0]_vars

\* one breaker has just opened on its fifth failure in a row, after the clock moved,
\* while another, Closed, has counted four failures
C26_Witness ==
    \E n, m \in DOMAIN breakers :
        /\ breakers[n].State = "Open" /\ breakers[n].Failures = FailuresToOpen
        /\ failRun[n] = [n |-> FailuresToOpen, since |-> now]
        /\ breakers[n].LastOpenTime = now /\ now > 0
        /\ breakers[m].State = "Closed" /\ breakers[m].Failures = FailuresToOpen - 1

\* C27: in HalfOpen state OnSuccess moves the breaker to Closed with failure counter
\* 0 and InFlight 0, and OnFailure moves it to Open with the open timestamp now and
\* InFlight 0; AllowRequest on an Open breaker whose cooldown has not elapsed
\* returns false and leaves the breaker unchanged.
C27_ProbeOutcomeAndOpenDenial ==
    [][\A n \in BreakerNames :
        n \in DOMAIN breakers =>
            /\ (CbOnSuccess(n) /\ breakers[n].State = "HalfOpen") =>
                  breakers'[n] = [breakers[n] EXCEPT !.State = "Closed",
                                                    !.Failures = 0, !.InFlight = 0]
            /\ (CbOnFailure(n) /\ breakers[n].State = "HalfOpen") =>
                  breakers'[n] = [breakers[n] EXCEPT !.State = "Open",
                                                    !.Failures = @ + 1,
                                                    !.LastOpenTime = now,
                                                    !.InFlight = 0]
            /\ (/\ CbAllowRequest(n)
                /\ breakers[n].State = "Open"
                /\ Since(now, breakers[n].LastOpenTime) < OpenCooldown) =>
                  /\ ~cbRet'.allowed
                  /\ breakers' = breakers]_vars

\* AllowRequest has just been refused by a breaker that a failed probe reopened
\* less than a cooldown ago, while the breaker of another backend is Closed again
\* after a successful probe
C27_Witness ==
    \E n, m \in DOMAIN breakers :
        /\ cbRet = [op |-> "AllowRequest", name |-> n, allowed |-> FALSE]
        /\ breakers[n].State = "Open" /\ breakers[n].Failures > FailuresToOpen
        /\ breakers[n].LastOpenTime >= OpenCooldown
        /\ Since(now, breakers[n].LastOpenTime) < OpenCooldown
        /\ Since(now, breakers[n].LastOpenTime) > 0
        /\ breakers[m].State = "Closed" /\ breakers[m].Failures = 0
        /\ breakers[m].LastOpenTime >= 0

----------------------------------------------------------------------------
(* Properties of the registry, checked under SpecRegistry *)

\* the prefixes registered by some server of r
RegisteredPrefixes(r) ==
    UNION { Range(r[n].Prefixes) : n \in DOMAIN r }

\* what ServersForPath is to return for requestPath when the prefixes in eligible
\* count as routes: the longest one that is a string-prefix of the path and the
\* servers that registered exactly it, each once; not found when there is none
LongestPrefixAnswer(r, requestPath, eligible, ret) ==
    LET matching == { p \in eligible : HasPrefix(requestPath, p) }
    IN  /\ ret.found <=> matching # {}
        /\ ret.found =>
              /\ ret.prefix \in matching
              /\ \A p \in matching : Len(p) <= Len(ret.prefix)
              /\ { sv.Name : sv \in Range(ret.servers) }
                    = { n \in DOMAIN r : ret.prefix \in Range(r[n].Prefixes) }
              /\ \A i \in 1..Len(ret.servers) : ret.servers[i] = r[ret.servers[i].Name]
              /\ \A i, j \in 1..Len(ret.servers) :
                    ret.servers[i].Name = ret.servers[j].Name => i = j
        /\ ~ret.found => ret.servers = << >>

\* Every Register and Deregister overwrites regRet, so a regRet of ServersForPath
\* is the answer of that call for the registry as it is.

\* C10 as claimed: for every registry content, the empty prefix included, and every
\* path, ServersForPath returns the longest registered prefix that is a
\* string-prefix of the path with exactly the servers that registered it, each
\* once, and found=false only when no registered prefix is a string-prefix.
C10_LongestRegisteredPrefix ==
    regRet.op = "ServersForPath" =>
        LongestPrefixAnswer(servers, regRet.path, RegisteredPrefixes(servers), regRet)

\* C10 as amended: the same for the non-empty registered prefixes; a registered
\* empty prefix is never a route.
C10_LongestNonEmptyPrefix ==
    regRet.op = "ServersForPath" =>
        LongestPrefixAnswer(servers, regRet.path,
                            RegisteredPrefixes(servers) \ {<< >>}, regRet)

\* "/a/b/x" resolved to "/a/b" with the two servers that registered it, while a
\* third server registered only the shorter "/a"
C10_Witness ==
    /\ regRet.op = "ServersForPath" /\ regRet.found
    /\ regRet.path = <<"/", "a", "/", "b", "/", "x">>
    /\ regRet.prefix = PrefixAB
    /\ Len(regRet.servers) = 2
    /\ \E n \in DOMAIN servers : servers[n].Prefixes = <<PrefixA>>
    /\ \E n \in DOMAIN servers : servers[n].Prefixes = <<PrefixAB, PrefixAB>>

\* C12: Register of a name that is already registered returns an error and leaves
\* the table unchanged, otherwise it adds the record and nothing else; Deregister
\* of a name that is not registered returns an error and leaves the table
\* unchanged, otherwise it removes that record and nothing else; every record is
\* stored under its own name, so there is at most one record per name.
C12_RegistryMutationErrors ==
    [][/\ regRet'.op = "Register" =>
             IF regRet'.name \in DOMAIN servers
             THEN regRet'.err /\ servers' = servers
             ELSE /\ ~regRet'.err
                  /\ DOMAIN servers' = DOMAIN servers \cup {regRet'.name}
                  /\ servers'[regRet'.name].Prefixes = regRet'.given
                  /\ \A n \in DOMAIN servers : servers'[n] = servers[n]
       /\ regRet'.op = "Deregister" =>
             IF regRet'.name \notin DOMAIN servers
             THEN regRet'.err /\ servers' = servers
             ELSE /\ ~regRet'.err
                  /\ DOMAIN servers' = DOMAIN servers \ {regRet'.name}
                  /\ \A n \in DOMAIN servers' : servers'[n] = servers[n]
       /\ \A n \in DOMAIN servers' : servers'[n].Name = n]_vars

\* a Register of an existing name with other prefixes was refused
C12_Witness ==
    /\ regRet.op = "Register"
    /\ regRet.err
    /\ regRet.name \in DOMAIN servers
    /\ servers[regRet.name].Prefixes # regRet.given

----------------------------------------------------------------------------
(* Properties of the router, checked under SpecRouter *)

\* the servers registered with exactly this prefix
ServersOfPrefix(prefix) ==
    { n \in DOMAIN servers : prefix \in Range(servers[n].Prefixes) }

\* C8: with exactly two registered backends sharing the longest-matched prefix,
\* both healthy and both with Closed breakers, and no registry, health or breaker
\* change between the calls, two successive ResolveBackend calls for paths under
\* that prefix never return the same backend, whatever order the registry returns
\* the candidates in.
C8_RoundRobinAlternates ==
    (/\ Len(picks) = 2
     /\ Cardinality(ServersOfPrefix(picks[2].prefix)) = 2
     /\ \A n \in ServersOfPrefix(picks[2].prefix) :
           IsHealthy(healthMap, n) /\ GetBreakerState(breakers, n) = "Closed")
        => picks[1].server # picks[2].server

\* goroutine t ends its ResolveBackend in this step, all candidates examined
ResolveEnds(t) ==
    /\ req[t].pc = "select"
    /\ req'[t].pc \in {"idle", "resolved"}

\* C9: with two backends sharing the longest-matched prefix, a ResolveBackend during
\* which one of them is unhealthy throughout never returns that one, and returns
\* the other one whenever that one was found healthy and was admitted by its
\* breaker in this call, whatever the round-robin counter is.
C9_UnhealthyBackendNeverChosen ==
    [][\A t \in RouterThreads :
        ResolveEnds(t) =>
            LET cands == { req[t].candidates[i].Name : i \in 1..Len(req[t].candidates) }
            IN  Cardinality(cands) = 2 =>
                  \A u \in cands \cap req[t].sick :
                     \A o \in cands \ {u} :
                        /\ req'[t].result.ok => req'[t].result.server = o
                        /\ (o \in req[t].sawHealthy /\ o \in req[t].allowedBy) =>
                              (req'[t].result.ok /\ req'[t].result.server = o)]_vars

\* s1, its breaker Closed, has been unhealthy throughout a resolution that found
\* the round-robin counter at 1 and returned s2
C9_Witness ==
    \E t \in RouterThreads :
        /\ req[t].pc = "resolved"
        /\ "s1" \in req[t].sick
        /\ req[t].result.server = "s2"
        /\ RoundRobinAt(roundRobinIndex, req[t].prefix) = 2
        /\ GetBreakerState(breakers, "s1") = "Closed"

----------------------------------------------------------------------------
(* Properties of the health monitor, checked under SpecHealth *)

\* the healthy flag of the record of n, false when there is no record
FlagOf(h, n) == n \in DOMAIN h /\ h[n].IsHealthy

\* C15: the healthy flag of a backend's record goes from true to false only on a
\* failed probe result that brings the consecutive-failure counter to at least
\* UnhealthyThreshold with no success in between; it goes from false to true only
\* on a successful probe result, and every successful probe result leaves the flag
\* true and the counter 0.
C15_HealthFlagHysteresis ==
    [][\A n \in Names :
          /\ (FlagOf(healthMap, n) /\ n \in DOMAIN healthMap' /\ ~FlagOf(healthMap', n)) =>
                /\ hm'.last = [name |-> n, ok |-> FALSE]
                /\ hm'.streak[n] >= UnhealthyThreshold
                /\ healthMap'[n].ConsecutiveFailures >= UnhealthyThreshold
          /\ (~FlagOf(healthMap, n) /\ FlagOf(healthMap', n)) =>
                hm'.last = [name |-> n, ok |-> TRUE]
          /\ (hm'.last = [name |-> n, ok |-> TRUE] /\ hm'.inflight # hm.inflight) =>
                /\ FlagOf(healthMap', n)
                /\ healthMap'[n].ConsecutiveFailures = 0]_vars

\* s1 was healthy and its third failed probe in a row has just marked it unhealthy
C15_Witness ==
    /\ hm.last = [name |-> "s1", ok |-> FALSE]
    /\ "s1" \in hm.succeeded
    /\ hm.streak["s1"] = UnhealthyThreshold
    /\ "s1" \in DOMAIN healthMap
    /\ ~healthMap["s1"].IsHealthy

\* C16: IsHealthy returns false for a name that has no health record, and returns
\* true only for a name whose record has seen a successful probe since it was
\* created.
C16_UnknownBackendIsUnhealthy ==
    /\ ~hm.ret.known => ~hm.ret.value
    /\ hm.ret.value => hm.ret.proven

\* IsHealthy has answered false for a registered backend whose record was removed
\* after a successful probe
C16_Witness ==
    /\ hm.ret.name \in DOMAIN servers
    /\ ~hm.ret.known
    /\ ~hm.ret.value
    /\ hm.streak[hm.ret.name] = 0
    /\ hm.gen >= 1
    /\ hm.inflight = {}

\* C17: when Stop has returned, the Start loop has exited and no probe is in
\* progress, and from then on no probe is started and no health record is updated.
C17_StopWaitsForLoop ==
    [][/\ hm'.stop = "returned" => (hm'.loop = "exited" /\ hm'.inflight = {})
       /\ hm.stop = "returned" =>
             /\ hm'.gen = hm.gen
             /\ \A n \in DOMAIN healthMap' :
                   n \in DOMAIN healthMap /\ healthMap'[n] = healthMap[n]]_vars

\* Shutdown has returned after the monitor ran at least two generations of probes
C17_Witness ==
    /\ hm.stop = "returned"
    /\ hm.ctxDone
    /\ hm.gen >= 2
    /\ DOMAIN healthMap = DOMAIN servers

\* C18: every probe in flight belongs to the current checkAllServers generation,
\* and no two probes in flight are for the same backend name.
C18_TicksNeverOverlap ==
    /\ \A p \in hm.inflight : p[2] = hm.gen
    /\ \A p, q \in hm.inflight : p[1] = q[1] => p = q

\* the second generation has all its probes in flight
C18_Witness ==
    /\ hm.gen >= 2
    /\ hm.loop = "checking"
    /\ { p[1] : p \in hm.inflight } = DOMAIN servers
    /\ Cardinality(hm.inflight) = 2

----------------------------------------------------------------------------
(* Properties of the request handlers, checked under SpecRouter *)

\* C13: a request for which ResolveBackend returned a backend has had exactly one
\* OnSuccess or OnFailure call for that backend when its handler has returned,
\* and never more than one, whatever exit the handler took.
C13_ExactlyOneTerminalReport ==
    \A t \in RouterThreads :
        /\ req[t].result.reports <= 1
        /\ (req[t].pc = "idle" /\ req[t].result.ok) => req[t].result.reports = 1

\* C14: once every handler has returned, every probe slot admitted by AllowRequest
\* has been released (InFlight is 0 for every breaker), and InFlight is never
\* negative.
C14_ProbeSlotReleased ==
    /\ \A n \in DOMAIN breakers : breakers[n].InFlight >= 0
    /\ (\A t \in RouterThreads : req[t].pc = "idle") =>
          \A n \in DOMAIN breakers : breakers[n].InFlight = 0

\* the non-empty registered prefixes that are string-prefixes of requestPath
MatchingPrefixes(r, requestPath) ==
    { p \in RegisteredPrefixes(r) \ { << >> } : HasPrefix(requestPath, p) }

\* the names of the servers in the sequence sq
NamesOf(sq) == { sq[i].Name : i \in 1..Len(sq) }

\* C19: ResolveBackend returns no_route exactly when no registered (non-empty)
\* prefix is a string-prefix of the path, and otherwise examines exactly the
\* servers registered with the longest such prefix; it then returns
\* no_healthy_backends exactly when none of them was both found healthy and
\* admitted by its breaker during the call, and otherwise returns one of those that
\* were.
C19_ResolveBackendOutcomes ==
    [][\A t \in RouterThreads :
          /\ (req[t].pc = "route" /\ req'[t].pc # "route") =>
                LET matching == MatchingPrefixes(servers, req[t].path)
                IN  /\ (req'[t].pc = "idle" /\ req'[t].result.err = "no_route")
                           <=> matching = {}
                    /\ matching # {} =>
                          /\ req'[t].pc = "health"
                          /\ req'[t].prefix \in matching
                          /\ \A p \in matching : Len(p) <= Len(req'[t].prefix)
                          /\ NamesOf(req'[t].candidates) = ServersOfPrefix(req'[t].prefix)
          /\ ResolveEnds(t) =>
                LET both == req[t].sawHealthy \cap req[t].allowedBy
                IN  /\ (req'[t].pc = "idle" /\ req'[t].result.err = "no_healthy_backends")
                           <=> both = {}
                    /\ both # {} =>
                          /\ req'[t].pc = "resolved"
                          /\ req'[t].result.ok
                          /\ req'[t].result.server \in both
                          /\ req'[t].result.server \in NamesOf(req[t].candidates)
                          /\ req'[t].result.prefix = req[t].prefix]_vars

\* a resolution has returned s2 after finding s1 healthy but refused by its open
\* breaker
C19_Witness ==
    \E t \in RouterThreads :
        /\ req[t].pc = "resolved"
        /\ req[t].result.server = "s2"
        /\ req[t].sawHealthy = {"s1", "s2"}
        /\ req[t].allowedBy = {"s2"}

\* the records of table f for the names other than n are the same after the step
OthersKept(f, g, n) ==
    \A m \in Names \ {n} :
        /\ (m \in DOMAIN g) <=> (m \in DOMAIN f)
        /\ m \in DOMAIN f => g[m] = f[m]

\* C23: AllowRequest, OnFailure, OnSuccess and OnRequestComplete for backend n, and
\* a probe result recorded for n, leave the breaker record and the health record
\* of every other name unchanged.
C23_FailureIsolation ==
    [][/\ \A t \in RouterThreads :
             /\ (req[t].pc = "breaker" /\ req'[t].pc # "breaker") =>
                   /\ OthersKept(breakers, breakers', req[t].candidates[req[t].i].Name)
                   /\ healthMap' = healthMap
             /\ (req[t].pc \in {"resolved", "complete"} /\ req'[t].pc # req[t].pc) =>
                   /\ OthersKept(breakers, breakers', req[t].result.server)
                   /\ healthMap' = healthMap
       /\ healthMap' # healthMap =>
             /\ \E n \in DOMAIN servers : OthersKept(healthMap, healthMap', n)
             /\ breakers' = breakers]_vars

\* a request forwarded to s1 has failed and a probe of s1 has failed: s1 has a
\* failure counted in its breaker and one in its health record, while the breaker
\* of s2 is as created and s2 is healthy with no failure counted
C23_Witness ==
    /\ \E t \in RouterThreads :
          req[t].result.server = "s1" /\ req[t].result.reports = 1
    /\ {"s1", "s2"} \subseteq DOMAIN breakers
    /\ breakers["s1"].Failures = 1
    /\ breakers["s2"] = NewBreaker
    /\ {"s1", "s2"} \subseteq DOMAIN healthMap
    /\ healthMap["s1"].ConsecutiveFailures = 1
    /\ healthMap["s2"].ConsecutiveFailures = 0 /\ IsHealthy(healthMap, "s2")

----------------------------------------------------------------------------
(* Properties of the GET handler and its cache, checked under SpecProxy *)

\* goroutine t starts serving a GET in this step: a cache hit or a miss
GetBegins(t) ==
    /\ req[t].pc = "idle"
    /\ req'[t] # req[t]
    /\ \/ req'[t].pc = "route" /\ req'[t].method = "GET"
       \/ req'[t].pc = "idle" /\ req'[t].response.from = "cache"

\* the path of the GET that goroutine t of request table r has just started
GetPath(r, t) == IF r[t].pc = "route" THEN r[t].path ELSE r[t].response.path

\* the answer of the handler of t in request table r is the cached body of the
\* last fetch, with no ResolveBackend and no outbound request
ServedFromCache(r, t) ==
    /\ r[t].pc = "idle"
    /\ r[t].response = [from |-> "cache", path |-> fetched.path, status |-> 200,
                        body |-> fetched.body]

\* the handler of t ends in this step having answered a GET with a 200 response
\* of a backend
GetAnswered200(t) ==
    /\ req[t].pc = "body"
    /\ req'[t].response.from = "backend"
    /\ req'[t].response.status = 200

\* the entry of key and value fits the byte budget of cache c
Fits(c, key, value) == Len(key) + Len(value) + nodeOverhead <= c.maxBytes

\* C11 as stated: a GET answered with status 200 by a backend leaves the body
\* cached under its path, and the next GET for that path before the TTL has
\* elapsed is answered from the cache with no ResolveBackend and no outbound
\* request.
C11_SecondGetServedFromCache ==
    [][\A t \in RouterThreads :
          /\ GetAnswered200(t) =>
                /\ req[t].path \in DOMAIN rc'.items
                /\ rc'.items[req[t].path].value = req'[t].response.body
          /\ (/\ GetBegins(t)
              /\ fetched.ok
              /\ fetched.path = GetPath(req', t)
              /\ now < fetched.at + CacheTTL) => ServedFromCache(req', t)]_vars

\* C11 for entries that fit the byte budget: a GET answered with status 200 by a
\* backend, whose entry fits the budget, leaves the body cached under its path,
\* and the next GET for that path before the TTL has elapsed is answered from the
\* cache with no ResolveBackend and no outbound request.
C11_FittingGetServedFromCache ==
    [][\A t \in RouterThreads :
          /\ (GetAnswered200(t) /\ Fits(rc, req[t].path, req'[t].response.body)) =>
                /\ req[t].path \in DOMAIN rc'.items
                /\ rc'.items[req[t].path].value = req'[t].response.body
          /\ (/\ GetBegins(t)
              /\ fetched.ok
              /\ fetched.path = GetPath(req', t)
              /\ Fits(rc, fetched.path, fetched.body)
              /\ now < fetched.at + CacheTTL) => ServedFromCache(req', t)]_vars

\* a GET has been answered from the cache some time after the fetch, within the TTL
C11_Witness ==
    \E t \in RouterThreads :
        /\ ServedFromCache(req, t)
        /\ fetched.ok
        /\ now > fetched.at
        /\ now < fetched.at + CacheTTL

----------------------------------------------------------------------------
(* Properties of the locking, checked under SpecLocks *)

\* goroutine u is at a Lock / RLock that cannot be granted now
Blocked(u) ==
    /\ NextOp(u).op = "lock"
    /\ ~Available(NextOp(u).lock, NextOp(u).mode)

\* C20: no goroutine ever holds two of the mutexes at once, and a goroutine that
\* waits for a mutex waits for holders none of which is itself waiting for a
\* mutex, so there is no cycle of waiting goroutines.
C20_NoTwoLocksHeld ==
    /\ \A u \in Units : Cardinality(HeldBy(u)) <= 1
    /\ \A u \in Units :
          Blocked(u) => \A h \in lk.holders[NextOp(u).lock] : ~Blocked(h[1])

\* the GET handler waits for the cache mutex held by the Cleanup loop while the
\* POST handler holds the breaker mutex and a probe holds the health mutex
C20_Witness ==
    /\ Blocked("get")
    /\ <<"cleanup", "W">> \in lk.holders["cache"]
    /\ HeldBy("post") = {"breaker"}
    /\ HeldBy("probe") = {"health"}

----------------------------------------------------------------------------
(* Properties of the two registries, checked under SpecRegistries *)

\* C21: the PostgreSQL-backed registry and the in-memory registry are
\* observationally equivalent: after every sequence of Register, Deregister,
\* GetServers, GetServer and ServersForPath calls made on both, the last call
\* returned the same error and the same results from both (server lists compared
\* as sets: the in-memory registry returns them in map iteration order).
C21_RegistriesAgree ==
    /\ pg.ret.op = regRet.op
    /\ pg.ret.err = regRet.err
    /\ pg.ret.prefix = regRet.prefix
    /\ pg.ret.found = regRet.found
    /\ Range(pg.ret.servers) = Range(regRet.servers)

----------------------------------------------------------------------------
(* Properties of what the handlers cache, checked under SpecProxy *)

\* thread t ends a forwarded request by writing the backend's response to the client
AnswersFromBackend(t) ==
    /\ req[t].pc \in {"body", "complete"}
    /\ req'[t].pc = "idle"
    /\ req'[t].response.from = "backend"

\* the step stores body under path: the entry is written with the deadline now + TTL
StoresUnder(path, body) ==
    /\ cacheRet'.op = "Store" /\ cacheRet'.key = path /\ cacheRet'.value = body
    /\ path \in DOMAIN rc'.items =>
          /\ rc'.items[path].value = body
          /\ rc'.items[path].expiresAt = now + rc.ttl

\* the entries the step writes: new keys and keys whose value or deadline changed
Written ==
    { k \in DOMAIN rc'.items :
         \/ k \notin DOMAIN rc.items
         \/ rc'.items[k].value # rc.items[k].value
         \/ rc'.items[k].expiresAt # rc.items[k].expiresAt }

\* C22: the cache is written exactly when a forwarded GET returned a 2xx status:
\* every forwarded GET answered with a status in 200..299 is stored under the
\* request path with the raw response body, and no other response (a non-2xx GET,
\* or any POST) is stored.
C22_CacheWrittenExactlyFor2xxGet ==
    [][\A t \in RouterThreads :
        /\ (/\ AnswersFromBackend(t)
            /\ req[t].method = "GET"
            /\ req'[t].response.status \in 200..299) =>
                StoresUnder(req[t].path, req'[t].response.body)
        /\ Written # {} =>
                /\ AnswersFromBackend(t)
                /\ req[t].method = "GET"
                /\ req'[t].response.status \in 200..299
                /\ Written = { req[t].path }]_vars

----------------------------------------------------------------------------
(* Round-robin selection under concurrency *)

\* the goroutines that have read the counter of prefix p and not yet incremented it
Reading(p) == { t \in RrThreads : rrs.th[t].pc = "read" /\ rrs.th[t].prefix = p }

\* C31: the counter of a prefix is read and incremented once, atomically, by every
\* ResolveBackend that selects, and not touched by one that fails.  Under any
\* interleaving the k-th selection for a prefix reads the value k-1 and its index
\* is that value modulo the number of eligible servers of the same call; the
\* counter is the number of selections that have read it, less the one that holds
\* rr.mu between its read and its increment; a no_healthy_backends return leaves
\* counter and history as they were.
C31_CounterUsedOncePerSelection ==
    /\ [](\A p \in RrPrefixes :
            /\ \A k \in 1..Len(rrs.used[p]) :
                  /\ rrs.used[p][k].value = k - 1
                  /\ rrs.used[p][k].index = (k - 1) % rrs.used[p][k].size
            /\ Cardinality(Reading(p)) <= 1
            /\ RoundRobinAt(roundRobinIndex, p)
                  = Len(rrs.used[p]) - Cardinality(Reading(p)))
    /\ [][\A t \in RrThreads :
            (rrs.th[t].pc = "filtered" /\ rrs'.th[t].err = "no_healthy_backends")
                => /\ roundRobinIndex' = roundRobinIndex
                   /\ rrs'.used = rrs.used]_vars

\* a second selection for "/a" has read the value 1 and holds rr.mu while the other
\* goroutine waits for rr.mu with two eligible servers for the same prefix
C31_Witness ==
    \E t, u \in RrThreads :
        /\ t # u
        /\ rrs.th[t].pc = "read" /\ rrs.th[t].prefix = PrefixA
        /\ rrs.th[t].value = 1
        /\ rrs.th[u].pc = "filtered" /\ rrs.th[u].prefix = PrefixA
        /\ rrs.th[u].size = 2

----------------------------------------------------------------------------
(* Properties of performRequest and of the handlers around it, checked under      *)
(* SpecRetry                                                                      *)

\* performRequest has returned, to a handler that may have reported already
Returned == pr.pc = "returned" \/ (pr.pc = "idle" /\ pr.report # "")

\* C32: performRequest makes at least 1 and at most 3 attempts; attempt n+1 follows
\* only a transport error or a retryable status of attempt n and a sleep of the
\* n-th delay of the schedule (100 ms, then 500 ms); every attempt carries the
\* method, URL, headers and body bytes of the call.
C32_AttemptsBackoffAndIdentity ==
    /\ Len(pr.sent) <= maxRetries
    /\ Returned => Len(pr.sent) >= 1
    /\ Returned => Len(pr.slept) = Len(pr.sent) - 1
    /\ \A n \in 1..Len(pr.slept) :
          /\ n + 1 <= Len(pr.sent) + (IF pr.pc = "loop" THEN 1 ELSE 0)
          /\ pr.seen[n] = 0 \/ Retryable(pr.seen[n])
          /\ pr.slept[n] = <<100, 500>>[n]
          /\ n > 1 => pr.slept[n] > pr.slept[n - 1]
    /\ \A n \in 1..Len(pr.sent) :
          pr.sent[n] = [method |-> pr.method, url |-> pr.url, header |-> pr.header,
                        body |-> pr.body]

\* C33: performRequest returns the outcome of its last attempt: the error alone
\* when that attempt met a transport error, the response with a nil error when it
\* met a response, a retryable status on the last attempt included; nothing of an
\* earlier attempt is returned, and a call that made no attempt returns an error
\* and no response.
C33_ReturnsLastAttempt ==
    Returned =>
        IF Len(pr.seen) = 0
        THEN pr.ret.err /\ pr.ret.status = 0
        ELSE LET last == pr.seen[Len(pr.seen)]
             IN  /\ last = 0 => (pr.ret.err /\ pr.ret.status = 0)
                 /\ last # 0 => (~pr.ret.err /\ pr.ret.status = last)
                 /\ pr.ret.attempts = Len(pr.seen)

\* a transport error, then 500, then 504 on the third attempt, which is returned
C33_Witness ==
    /\ pr.pc = "returned"
    /\ pr.seen = <<0, 500, 504>>
    /\ pr.ret = [err |-> FALSE, status |-> 504, attempts |-> 3]

\* the query string as it follows the path in a URL
QueryString(query) == IF query = << >> THEN << >> ELSE <<"?">> \o query

\* C34: the URL of every forwarded request is the base URL of the chosen server,
\* then the request path without the matched prefix, then the query string of the
\* request.
C34_TargetURLKeepsPathAndQuery ==
    \A n \in 1..Len(pr.sent) :
        pr.sent[n].url =
            PrServer.BaseURL \o TrimPrefix(pr.path, pr.prefix) \o QueryString(pr.query)

\* C39: the handlers report as a failure exactly the statuses performRequest
\* retries: a response reported through OnFailure is the third attempt's.
C39_ReportedFailuresWereRetried ==
    (pr.report = "OnFailure" /\ ~pr.ret.err) =>
        /\ Retryable(pr.ret.status)
        /\ Len(pr.sent) = maxRetries

----------------------------------------------------------------------------
(* Effects of ResolveBackend on the breaker table, checked under SpecRouter and, *)
(* for backends that stay healthy, under SpecRecovery                           *)

\* C35: ResolveBackend changes the breaker record of no backend but the one it
\* returns; in particular the AllowRequest it makes for a candidate it has just
\* found unhealthy, which it cannot return, leaves every breaker record as it was.
C35_ResolveTouchesOnlyReturnedBreaker ==
    [][\A t \in RouterThreads :
          (req[t].pc = "breaker" /\ req'[t].pc # "breaker" /\ ~req[t].isHealthy)
              => BreakerView(breakers') = BreakerView(breakers)]_vars

\* the request of goroutine t will report for backend n, or may still: it was
\* resolved to n and has not called OnSuccess / OnFailure and OnRequestComplete yet,
\* or its ResolveBackend has n among its healthyServers and has not selected yet
WillReportFor(t, n) ==
    \/ req[t].pc \in {"resolved", "complete"} /\ req[t].result.server = n
    \/ /\ req[t].pc \in {"health", "breaker", "select"}
       /\ \E i \in 1..Len(req[t].healthyServers) : req[t].healthyServers[i].Name = n

\* C36: a breaker that entered HalfOpen leaves it again while requests arrive and
\* its backend is healthy: no state has a healthy backend HalfOpen with a probe
\* counted in flight (so that AllowRequest denies it) and no request that will
\* report for it.
C36_HalfOpenProbeHasReporter ==
    \A n \in DOMAIN breakers :
        (/\ breakers[n].State = "HalfOpen"
         /\ breakers[n].InFlight >= 1
         /\ IsHealthy(healthMap, n))
            => \E t \in RouterThreads : WillReportFor(t, n)

----------------------------------------------------------------------------
(* The failure counter of a Closed breaker, checked under SpecBreaker *)

\* C37: a breaker in Closed state has counted fewer than FailuresToOpen (5)
\* failures; a count of 5 or more is found only on an Open or HalfOpen breaker.
C37_ClosedCountsBelowThreshold ==
    \A n \in DOMAIN breakers :
        /\ breakers[n].State = "Closed" => breakers[n].Failures < 5
        /\ breakers[n].Failures >= 5 => breakers[n].State \in {"Open", "HalfOpen"}

\* s1 is Closed one failure short of opening while s2, which counted a sixth
\* failure when Open, is HalfOpen
C37_Witness ==
    /\ DOMAIN breakers = {"s1", "s2"}
    /\ breakers["s1"].State = "Closed" /\ breakers["s1"].Failures = 4
    /\ breakers["s2"].State = "HalfOpen" /\ breakers["s2"].Failures = 6

----------------------------------------------------------------------------
(* What a Store leaves of its own entry, checked under SpecCache *)

\* C38: when Store(key, value) has returned, key is cached, at the head and with
\* the stored value, if and only if len(key) + len(value) + 64 is at most maxBytes;
\* a larger entry has been evicted by its own Store with every other entry, and
\* the cache is empty with usedBytes = 0.
C38_StoreKeepsEntryIffItFits ==
    cacheRet.op = "Store" =>
        LET key == cacheRet.key
            value == cacheRet.value
        IN  IF Len(key) + Len(value) + 64 <= rc.maxBytes
            THEN /\ key \in DOMAIN rc.items
                 /\ rc.head = key
                 /\ rc.items[key].value = value
            ELSE /\ DOMAIN rc.items = {}
                 /\ rc.head = NIL /\ rc.tail = NIL
                 /\ rc.usedBytes = 0

\* a Store of 68 bytes into a cache of 67 that held another entry has left it empty
C38_Witness ==
    /\ cacheRet.op = "Store"
    /\ rc.maxBytes = 67
    /\ Len(cacheRet.key) + Len(cacheRet.value) + 64 = 68
    /\ cacheRet.removed # {cacheRet.key}
    /\ DOMAIN rc.items = {}

----------------------------------------------------------------------------
(* Deregistration and the records kept per backend name, checked under            *)
(* SpecLifecycle                                                                  *)

\* the health table, the breaker table, the round-robin counters and the cache
perName == <<healthMap, breakers, roundRobinIndex, rc>>

\* C40: a Deregister call changes the registry table and nothing else: health
\* records, breaker records, round-robin counters and cached responses stay as they
\* are; nor does a Register call give the name new ones, so a name registered
\* again has the health flag and the breaker state it had.
C40_DeregisterKeepsPerNameRecords ==
    [][(regRet' # regRet /\ regRet'.op \in {"Deregister", "Register"})
          => perName' = perName]_vars

\* s1 has been deregistered and registered again: it is still unhealthy after
\* three failed probes, its breaker is still Open, and the response cached for
\* "/a/x" and the counter of "/a" are still there
C40_Witness ==
    /\ regRet.op = "Register" /\ regRet.name = "s1" /\ ~regRet.err
    /\ "s1" \in DOMAIN healthMap /\ ~healthMap["s1"].IsHealthy
    /\ "s1" \in DOMAIN breakers /\ breakers["s1"].State = "Open"
    /\ <<"/", "a", "/", "x">> \in DOMAIN rc.items
    /\ RoundRobinAt(roundRobinIndex, PrefixA) = 1

====
